---- MODULE Spec2Model ----
(***************************************************************************)
(* The reactive core of echojs (echojs/core/reactivity.js, latest revision *)
(* at lines 1-225, and echojs/core/state.js): the dependency graph         *)
(* (track / trigger), the effect wrapper and its scheduler (microtask      *)
(* queue, idle callbacks), batchUpdates and the proxy get / set traps.     *)
(*                                                                         *)
(* JavaScript runs one call at a time, so the model keeps the call stack   *)
(* explicitly: user code (top level, an effect body, a batch's dataFn)     *)
(* performs reads, writes, registrations, disposals and batches one call   *)
(* at a time; a microtask or an idle callback starts only when the stack   *)
(* is empty.                                                               *)
(***************************************************************************)
EXTENDS Integers, Sequences, FiniteSets, TLC

\* ---------------------------------------------------------------- bounds
\* User calls (read, write, effect, dispose, batchUpdates, throw) per run.
MaxOps == 5
\* User calls per run of a scenario (ScenarioSpec).
MaxScenarioOps == 8
\* User calls per run with shared user functions (PoolSpec).
MaxPoolOps == 6
\* User calls per run on the wrapped array (ArraySpec).
MaxArrayOps == 5
\* User calls per run around a mounted list (ListSpec).
MaxListOps == 8
\* Calls of registerDisposal and disposeNode per run (RegistrySpec).
MaxRegistryOps == 5
\* User calls per run with local states (LocalSpec).
MaxLocalOps == 5
\* User calls and scroll events per run around a virtual list (VirtualSpec).
MaxVirtualOps == 6
\* The largest scroll position of the container.
MaxScroll == 4
\* The user calls of a program that registers renderers and binds a list.
MaxBindOps == 5
\* The user calls of a program over a store that holds an array (StoreSpec).
MaxStoreOps == 6
\* The user calls of a program that calls trigger itself (TriggerSpec).
MaxTriggerOps == 5
\* The user calls of a program around a list whose renderItem may throw.
MaxRenderOps == 6
\* The user calls of a program run to its end by a fair host (LiveSpec).
MaxLiveOps == 4

\* ---------------------------------------------------------------- universe
Effects == {"e1", "e2"}
NoEffect == "none"
Targets == {"t1", "t2"}
Keys == {"a", "b"}
Values == {0, 1}
\* The wrapped objects: t1 = {a, b} and t2 = {a}.
Pairs == {<<"t1", "a">>, <<"t1", "b">>, <<"t2", "a">>}
NoPair == <<"none", "none">>
\* The wrapped array arr, [0] at first: its index keys in order, the key
\* length and a key that is no number ('[]', read by code that wants to hear
\* of every change of the content).
IdxKey == <<"0", "1">>
ArrKeys == {IdxKey[i] : i \in 1..Len(IdxKey)} \cup {"length", "[]"}
ArrPairs == {"arr"} \X ArrKeys
AllPairs == Pairs \cup ArrPairs
\* The value undefined, of an index the array does not have.
Undefined == -1
\* The user functions given to effect().
Fns == {"f1", "f2"}
NoFn == "none"
\* The unwrapped objects given to createState: o1 = {child: o2, list: a1,
\* n: 7}, o2 = {n: 7} and the array a1 = [o2].
Objs == {"o1", "o2", "a1"}
Prims == {"7", "null"}
Modes == {"shallow", "deep", "manual"}
Shapes == {"child|list|n", "n", "Array"}
CacheKeys == Modes \X Shapes
NoProxy == "none"
\* The proxies in the order they are made.
PNames == <<"p1", "p2", "p3", "p4", "p5">>

\* The ids of the list items, and those whose renderItem registers a disposal.
ListKeys == {"1", "2", "3"}
CleanupKeys == {"1", "2"}
\* The arrays the application assigns: up to two items, ids may repeat.
ItemSeqs ==
    {<<>>} \cup {<<k>> : k \in ListKeys} \cup {<<k, l>> : k, l \in ListKeys}
\* The property the array of items is stored in.
ItemsPair == <<"t1", "a">>

\* The keys of local states, and the mark of a key the Map does not have.
LocalKeys == {"k1", "k2"}
Absent == "absent"

VARIABLES
    val,            \* the wrapped plain objects: val[t][k]
    depMap,         \* depMap[<<t, k>>]: the dep Set of (t, k), in insertion order
    created,        \* the wrappers effect() has returned or is running
    deps,           \* deps[e]: wrapped.deps, each dep Set named by its (t, k)
    disposed,       \* disposed[e]: wrapped.disposed
    idle,           \* idle[e]: wrapped.idle
    activeEffect,   \* the module-level activeEffect
    effectQueue,    \* the pending Set, in insertion order
    batched,        \* the module-level batched flag
    queuedEffects,  \* the deferred Set, in insertion order
    hasIdle,        \* typeof requestIdleCallback === 'function'
    microtasks,     \* the host's microtask queue
    idleQueue,      \* the host's idle-callback queue
    stack,          \* the call stack, innermost call last
    exc,            \* an exception is propagating out of the innermost call
    runs,           \* history: runs[e], how often fn() of e was started
    hits,           \* history: hits[e], changed writes to a key e was tracking
    errors,         \* history: calls of globalErrorHandler
    escaped,        \* history: exceptions that reached the host uncaught
    ops,            \* history: user calls made so far
    last,           \* history: the call or callback that made the last step
    pc,             \* the phase of a scenario; "free" when no scenario is run
    fnOf,           \* fnOf[e]: the fn the wrapper e closes over
    wrapperPool,    \* wrapperPool[f]: has, the WeakMap has the key f; arr, its array
    proxies,        \* state.js: the proxies made so far, proxies[i] the i-th
    proxyCache,     \* state.js: proxyCache[o], the proxy cached for object o
    handlerCache,   \* state.js: the cache keys that have a handler
    childCache,     \* state.js: childCache[h][o], of the handler with key h
    ret,            \* history: what the last createState or get returned
    items,          \* reactiveList: the keys of the array getItems() returns
    rootEffect,     \* reactiveList: the wrapper of the reconciling effect
    nodeCache,      \* reactiveList: the Map id => node, in insertion order
    container,      \* reactiveList: the children of the container, in order
    disposalRegistry, \* lifecycle.js: the WeakMap, as pairs <<node, function>>
    log,            \* history: renderItem, disposal and container calls, in order
    made,           \* history: the nodes renderItem has made so far
    life,           \* history: life[id], renderItem calls since id was cached
    pass,           \* history: the calls the last reconciliation made
    localStateMap,  \* local.js: localStateMap[key], the state stored for key
    view,           \* virtualList: the container's scroll position and sizes
    rendererRegistry, \* bindList.js: the arrays the WeakMap has a configuration for
    storeMode       \* store.js: the mode the store was given to createState with

coreVars == <<val, depMap, created, deps, disposed, idle, activeEffect,
              effectQueue, batched, queuedEffects, hasIdle, microtasks,
              idleQueue, stack, exc>>
histVars == <<runs, hits, errors, escaped, ops, last>>
poolVars == <<fnOf, wrapperPool>>
wrapVars == <<proxies, proxyCache, handlerCache, childCache, ret>>
\* The state of the other modules of the library.
listVars == <<items, rootEffect, nodeCache, container, disposalRegistry,
              log, made, life, pass>>
localVars == <<localStateMap>>
virtVars == <<view>>
bindVars == <<rendererRegistry>>
storeVars == <<storeMode>>
ext == <<wrapVars, listVars, localVars, bindVars, storeVars, virtVars>>
vars == <<coreVars, histVars, pc, poolVars, ext>>

\* ---------------------------------------------------------------- helpers
Contains(s, x) == \E i \in 1..Len(s) : s[i] = x
Remove(s, x) == SelectSeq(s, LAMBDA y : y # x)
SeqSet(s) == {s[i] : i \in 1..Len(s)}
Count(s, x) == Cardinality({i \in 1..Len(s) : s[i] = x})
NoDup(s) == \A i, j \in 1..Len(s) : i # j => s[i] # s[j]
\* Set.prototype.add on an insertion-ordered Set
SetAdd(s, x) == IF Contains(s, x) THEN s ELSE Append(s, x)

RECURSIVE SetAddAll(_, _)
SetAddAll(s, xs) ==
    IF xs = <<>> THEN s ELSE SetAddAll(SetAdd(s, Head(xs)), Tail(xs))

Top == stack[Len(stack)]
Pop == SubSeq(stack, 1, Len(stack) - 1)
TopIs(t) == IF stack = <<>> THEN FALSE ELSE Top.t = t
Event(op, e, p, chg, es) == [op |-> op, e |-> e, p |-> p, chg |-> chg, es |-> es]

\* The frames of the call stack.  A callback frame is the microtask callback
\* of scheduleEffect ("flush") or its idle callback ("idle"); rest are the
\* wrappers it has still to call and done (history) those it has called.
CallbackFrame(t, rest, done) ==
    [t |-> t, e |-> NoEffect, rest |-> rest, done |-> done, render |-> FALSE,
     via |-> "host"]
EffectFrame(e, via) ==
    [t |-> "effect", e |-> e, rest |-> <<>>, done |-> {}, render |-> FALSE,
     via |-> via]
BatchFrame(render) ==
    [t |-> "batch", e |-> NoEffect, rest |-> <<>>, done |-> {},
     render |-> render, via |-> "call"]
\* The microtasks.  Of a renderFn microtask, deferred (history) are the
\* effects its batch had deferred and waiting (history) those of them whose
\* wrapper has not been called since.
FlushTask == [k |-> "flush", deferred |-> {}, waiting |-> {}]
RenderTask(ws) == [k |-> "render", deferred |-> ws, waiting |-> ws]

\* User code may make a call: at top level, in an effect body, in a dataFn.
InUserCode ==
    ~exc /\ (IF stack = <<>> THEN TRUE ELSE Top.t \in {"effect", "batch"})
Budget ==
    IF pc = "free" THEN MaxOps
    ELSE IF pc = "pool" THEN MaxPoolOps
    ELSE IF pc = "array" THEN MaxArrayOps
    ELSE IF pc = "list" THEN MaxListOps
    ELSE IF pc = "registry" THEN MaxRegistryOps
    ELSE IF pc = "local" THEN MaxLocalOps
    ELSE IF pc = "virtual" THEN MaxVirtualOps
    ELSE IF pc = "bind" THEN MaxBindOps
    ELSE IF pc = "store" THEN MaxStoreOps
    ELSE IF pc = "trigger" THEN MaxTriggerOps
    ELSE IF pc = "render" THEN MaxRenderOps
    ELSE IF pc = "live" THEN MaxLiveOps
    ELSE MaxScenarioOps
MayCall == InUserCode /\ ops < Budget

\* ---------------------------------------------------------------- reactivity.js
EffIdx(e) == IF e = "e1" THEN 1 ELSE 2

\* Mutant of cleanup: nothing is deleted.
cleanupNothing(e) == [dm |-> depMap, ds |-> deps]

\* Mutant of cleanup: effect.deps is cleared, the dep Sets are left alone.
cleanupClearsOnly(e) == [dm |-> depMap, ds |-> [deps EXCEPT ![e] = {}]]

\* cleanup(effect): delete the effect from every dep Set it recorded, then
\* clear effect.deps.
cleanup(e) ==
    [dm |-> [p \in AllPairs |-> IF p \in deps[e] THEN Remove(depMap[p], e)
                                                 ELSE depMap[p]],
     ds |-> [deps EXCEPT ![e] = {}]]

\* Mutant of track: the read is not recorded.
trackNothing(p) == [dm |-> depMap, ds |-> deps]

\* track(target, prop) with the current activeEffect.
track(p) ==
    IF activeEffect = NoEffect \/ Contains(depMap[p], activeEffect)
    THEN [dm |-> depMap, ds |-> deps]
    ELSE [dm |-> [depMap EXCEPT ![p] = Append(@, activeEffect)],
          ds |-> [deps EXCEPT ![activeEffect] = @ \cup {p}]]

\* The scheduler's queues as one value: q the pending Set, mt the microtask
\* queue, iq the idle-callback queue.
Sched == [q |-> effectQueue, mt |-> microtasks, iq |-> idleQueue]

\* An idle effect goes to requestIdleCallback when the host has one.
UsesIdle(e) == idle[e] /\ hasIdle

\* Mutant of scheduleEffect: no `already queued` check on a pending list.
scheduleEffectNoCheck(s, e) ==
    IF UsesIdle(e)
    THEN [s EXCEPT !.iq = Append(@, e)]
    ELSE [s EXCEPT !.q = Append(@, e), !.mt = Append(@, FlushTask)]

\* Mutant of scheduleEffect: the idle branch checks for a callback that is
\* already waiting.
scheduleEffectIdleCoalesced(s, e) ==
    IF UsesIdle(e)
    THEN IF Contains(s.iq, e) THEN s ELSE [s EXCEPT !.iq = Append(@, e)]
    ELSE IF Contains(s.q, e)
         THEN s
         ELSE [s EXCEPT !.q = Append(@, e), !.mt = Append(@, FlushTask)]

\* scheduleEffect(effectFn)
scheduleEffect(s, e) ==
    IF UsesIdle(e)
    THEN [s EXCEPT !.iq = Append(@, e)]
    ELSE IF Contains(s.q, e)
         THEN s
         ELSE [s EXCEPT !.q = Append(@, e), !.mt = Append(@, FlushTask)]

\* xs.forEach(scheduleEffect)
RECURSIVE scheduleAll(_, _)
scheduleAll(s, xs) ==
    IF xs = <<>> THEN s ELSE scheduleAll(scheduleEffect(s, Head(xs)), Tail(xs))

\* Mutant of trigger: the subscribers of every key of the target are taken.
triggerWholeTarget(p) ==
    LET RECURSIVE subs(_)
        subs(ps) == IF ps = {} THEN <<>>
                    ELSE LET q == CHOOSE x \in ps : TRUE
                         IN  SetAddAll(depMap[q], subs(ps \ {q}))
        all == subs({q \in Pairs : q[1] = p[1]})
    IN  IF batched
        THEN [s |-> Sched, qe |-> SetAddAll(queuedEffects, all)]
        ELSE [s |-> scheduleAll(Sched, all), qe |-> queuedEffects]

\* Mutant of trigger: the subscribers are deferred whatever the flag says.
triggerDefersAlways(p) ==
    [s |-> Sched, qe |-> SetAddAll(queuedEffects, depMap[p])]

\* trigger(target, prop) on a plain object: the subscribers of exactly that
\* key, each deferred while batched and handed to scheduleEffect otherwise.
trigger(p) ==
    IF batched
    THEN [s |-> Sched, qe |-> SetAddAll(queuedEffects, depMap[p])]
    ELSE [s |-> scheduleAll(Sched, depMap[p]), qe |-> queuedEffects]

\* Array.isArray(target), and !isNaN(prop) on the keys of the model.
IsArray(t) == t = "arr"
isNumericKey(k) == k \in SeqSet(IdxKey)
KeyNum(k) == (CHOOSE i \in 1..Len(IdxKey) : IdxKey[i] = k) - 1
LengthOf(t) == <<t, "length">>

\* Reflect.set(target, prop, value): on an array, a write at or past the end
\* moves length, and a write of length drops the indices from it on.
store(p, v) ==
    IF IsArray(p[1]) /\ isNumericKey(p[2])
    THEN [val EXCEPT ![p] = v,
                     ![LengthOf(p[1])] =
                         IF KeyNum(p[2]) >= @ THEN KeyNum(p[2]) + 1 ELSE @]
    ELSE IF IsArray(p[1]) /\ p[2] = "length"
    THEN [q \in AllPairs |->
             IF q = p THEN v
             ELSE IF q[1] = p[1] /\ isNumericKey(q[2]) /\ KeyNum(q[2]) >= v
                  THEN Undefined
                  ELSE val[q]]
    ELSE [val EXCEPT ![p] = v]

\* Mutant of effectsToRun: the subscribers of length are always added, as
\* trigger did before it compared the index with the length.
effectsToRunWithLength(vl, p) ==
    IF IsArray(p[1]) THEN SetAddAll(depMap[p], depMap[LengthOf(p[1])])
    ELSE depMap[p]

\* trigger(target, prop) in full, called with the target as the write left it
\* (vl) and the queues as the calls before it left them (st): effectsToRun
\* are the subscribers of the key and, for an index at or past the length of
\* an array, those of length too.
effectsToRun(vl, p) ==
    IF IsArray(p[1]) /\ isNumericKey(p[2])
    THEN SetAddAll(depMap[p],
                   IF KeyNum(p[2]) >= vl[LengthOf(p[1])]
                   THEN depMap[LengthOf(p[1])]
                   ELSE <<>>)
    ELSE depMap[p]

triggerAt(st, vl, p) ==
    IF batched
    THEN [s |-> st.s, qe |-> SetAddAll(st.qe, effectsToRun(vl, p))]
    ELSE [s |-> scheduleAll(st.s, effectsToRun(vl, p)), qe |-> st.qe]

\* Mutant of setTrap: no comparison of the old and the new value.
setTrapAlwaysTriggers(p, v) == trigger(p)

\* Mutant of setTrap: an index write triggers the index only.
setTrapIndexOnly(p, v) ==
    IF val[p] = v
    THEN [s |-> Sched, qe |-> queuedEffects]
    ELSE triggerAt([s |-> Sched, qe |-> queuedEffects], store(p, v), p)

\* The proxy's set trap (state.js): the write always happens; trigger only
\* when the stored value is not identical to the old one.  An index of an
\* array triggers the index and then length, length triggers length, and
\* every other key triggers itself.
setTrap(p, v) ==
    IF val[p] = v
    THEN [s |-> Sched, qe |-> queuedEffects]
    ELSE IF IsArray(p[1]) /\ (isNumericKey(p[2]) \/ p[2] = "length")
    THEN LET st0 == [s |-> Sched, qe |-> queuedEffects]
             st1 == IF isNumericKey(p[2])
                    THEN triggerAt(st0, store(p, v), p)
                    ELSE st0
         IN  triggerAt(st1, store(p, v), LengthOf(p[1]))
    ELSE trigger(p)

\* Mutant of wrappedRuns: no disposed check.
wrappedRunsAlways(e) == TRUE

\* The wrapper's first line: a disposed wrapper returns at once.
wrappedRuns(e) == ~disposed[e]

\* Mutant of wrappedCatches: try / finally without the catch clause.
wrappedRethrows == FALSE

\* The wrapper's catch clause: an exception of fn() goes to globalErrorHandler
\* and no further.
wrappedCatches == TRUE

\* Mutant of wrappedFinally: the slot is released on a normal return only.
wrappedFinallySkippedOnThrow(thrown) == IF thrown THEN activeEffect ELSE NoEffect

\* Mutant of wrappedFinally: the slot is given back to the effect whose body
\* called effect().
wrappedFinallyRestoresOuter(thrown) ==
    LET outer == {i \in 1..(Len(stack) - 1) : stack[i].t = "effect"}
    IN  IF outer = {} THEN NoEffect
        ELSE stack[CHOOSE i \in outer : \A j \in outer : j <= i].e

\* The wrapper's finally clause, activeEffect = null: what the slot holds
\* when control has left fn(), by return or by exception.
wrappedFinally(thrown) == NoEffect

\* Mutant of flushClear: the pending Set is not cleared.
flushKeepsQueue == effectQueue

\* The flush callback's effectQueue.clear(), after the snapshot is taken.
flushClear == <<>>

\* History: the wrapper of e has been called.
Called(mt, e) == [i \in 1..Len(mt) |-> [mt[i] EXCEPT !.waiting = @ \ {e}]]

\* fn(): the callback on top of the stack calls the wrapper that is next.
wrapped(e, base, via, mt) ==
    /\ microtasks' = Called(mt, e)
    /\ IF wrappedRuns(e)
       THEN /\ depMap' = cleanup(e).dm
            /\ deps' = cleanup(e).ds
            /\ activeEffect' = e
            /\ stack' = Append(base, EffectFrame(e, via))
            /\ runs' = [runs EXCEPT ![e] = @ + 1]
       ELSE /\ stack' = base
            /\ UNCHANGED <<depMap, deps, activeEffect, runs>>

\* Mutant of batchFinally: the deferred Set is cleared before it is copied.
batchFinallyClearsFirst(render) ==
    [s |-> IF render
           THEN [Sched EXCEPT !.mt = Append(@, RenderTask({}))]
           ELSE Sched,
     qe |-> <<>>,
     batched |-> FALSE]

\* Mutant of batchFinally: the deferred Set is not cleared.
batchFinallyKeepsDeferred(render) ==
    LET s == scheduleAll(Sched, queuedEffects)
    IN  [s |-> IF render
               THEN [s EXCEPT !.mt = Append(@, RenderTask(SeqSet(queuedEffects)))]
               ELSE s,
         qe |-> queuedEffects,
         batched |-> FALSE]

\* Mutant of batchFinally: renderFn is queued before the effects are scheduled.
batchFinallyRenderFirst(render) ==
    LET s0 == IF render
              THEN [Sched EXCEPT !.mt = Append(@, RenderTask(SeqSet(queuedEffects)))]
              ELSE Sched
    IN  [s |-> scheduleAll(s0, queuedEffects),
         qe |-> <<>>,
         batched |-> FALSE]

\* The finally block of batchUpdates.
batchFinally(render) ==
    LET s == scheduleAll(Sched, queuedEffects)
    IN  [s |-> IF render
               THEN [s EXCEPT !.mt = Append(@, RenderTask(SeqSet(queuedEffects)))]
               ELSE s,
         qe |-> <<>>,
         batched |-> FALSE]

\* ---------------------------------------------------------------- state
InitCore ==
    /\ val = [p \in AllPairs |->
                  IF p \in Pairs \/ p[2] = "0" THEN 0
                  ELSE IF p[2] = "length" THEN 1
                  ELSE Undefined]
    /\ depMap = [p \in AllPairs |-> <<>>]
    /\ created = {}
    /\ deps = [e \in Effects |-> {}]
    /\ disposed = [e \in Effects |-> FALSE]
    /\ idle = [e \in Effects |-> FALSE]
    /\ activeEffect = NoEffect
    /\ effectQueue = <<>>
    /\ batched = FALSE
    /\ queuedEffects = <<>>
    /\ hasIdle \in BOOLEAN
    /\ microtasks = <<>>
    /\ idleQueue = <<>>
    /\ stack = <<>>
    /\ exc = FALSE
    /\ runs = [e \in Effects |-> 0]
    /\ hits = [e \in Effects |-> 0]
    /\ errors = 0
    /\ escaped = 0
    /\ ops = 0
    /\ last = Event("init", NoEffect, NoPair, FALSE, {})
    /\ fnOf = [e \in Effects |-> NoFn]
    /\ wrapperPool = [f \in Fns |-> [has |-> FALSE, arr |-> <<>>]]

InitWrap ==
    /\ proxies = <<>>
    /\ proxyCache = [o \in Objs |-> NoProxy]
    /\ handlerCache = {}
    /\ childCache = [h \in CacheKeys |-> [o \in Objs |-> NoProxy]]
    /\ ret = "none"

\* No list is mounted: an empty array, an empty container, no node made.
NoPass == [old |-> {}, new |-> {}, render |-> [k \in ListKeys |-> 0],
           cleanup |-> [k \in ListKeys |-> 0]]

InitList ==
    /\ rootEffect = NoEffect
    /\ nodeCache = <<>>
    /\ container = <<>>
    /\ disposalRegistry = {}
    /\ log = <<>>
    /\ made = 0
    /\ life = [k \in ListKeys |-> 0]
    /\ pass = NoPass

\* local.js: localStateMap = new Map()
InitLocal == localStateMap = [k \in LocalKeys |-> Absent]

\* No virtual list: a container of no extent.
NoView == [scrollTop |-> 0, clientHeight |-> 0, itemHeight |-> 1, buffer |-> 0,
           startIdx |-> 0, endIdx |-> 0]
InitVirt == view = NoView

\* bindList.js: rendererRegistry = new WeakMap()
InitBind == rendererRegistry = {}

\* createState(obj): mode = Mode.SHALLOW when no option is given
InitStore == storeMode = "shallow"

InitExt ==
    /\ InitWrap /\ InitList /\ items = <<>> /\ InitLocal /\ InitVirt /\ InitBind
    /\ InitStore

Init == InitCore /\ InitExt /\ pc = "free"

\* ---------------------------------------------------------------- user calls
\* effect(fn, {idle}).  The array wrapperPool holds for fn is popped; when it
\* gave nothing a new wrapper is made (wrappers are taken in the order e1,
\* e2), marked and run at once; when it gave a wrapper the reinitialisation
\* `new set()` throws a ReferenceError out of effect().  On a host without
\* requestIdleCallback the idle flag changes nothing, so there only flagged
\* effects are registered.
effect(e, f, i) ==
    /\ MayCall
    /\ IF wrapperPool[f].arr = <<>>
       THEN /\ e \notin created
            /\ i \/ hasIdle
            /\ \A g \in Effects : EffIdx(g) < EffIdx(e) => g \in created
            /\ created' = created \cup {e}
            /\ idle' = [idle EXCEPT ![e] = i]
            /\ fnOf' = [fnOf EXCEPT ![e] = f]
            /\ wrapped(e, stack, "register", microtasks)
            /\ UNCHANGED <<wrapperPool, exc>>
       ELSE /\ e = wrapperPool[f].arr[Len(wrapperPool[f].arr)]
            /\ wrapperPool' =
                   [wrapperPool EXCEPT
                       ![f].arr = SubSeq(@, 1, Len(@) - 1)]
            /\ exc' = TRUE
            /\ UNCHANGED <<created, idle, fnOf, depMap, deps, activeEffect,
                           stack, runs, microtasks>>
    /\ ops' = ops + 1
    /\ last' = Event("effect", e, NoPair, i, {})
    /\ UNCHANGED <<val, disposed, effectQueue, batched, queuedEffects, hasIdle,
                   idleQueue, hits, errors, escaped>>

\* effect(() => {...}): a function of its own for each registration.
OwnFn(e) == IF e = "e1" THEN "f1" ELSE "f2"
Register(e, i) == effect(e, OwnFn(e), i)

\* A property read through the proxy: the get trap calls track.
Read(p) ==
    /\ MayCall
    /\ depMap' = track(p).dm
    /\ deps' = track(p).ds
    /\ ops' = ops + 1
    /\ last' = Event("read", activeEffect, p, FALSE, {})
    /\ UNCHANGED <<val, created, disposed, idle, activeEffect, effectQueue,
                   batched, queuedEffects, hasIdle, microtasks, idleQueue,
                   stack, exc, runs, hits, errors, escaped>>

\* A property write through the proxy: the set trap.
Write(p, v) ==
    /\ MayCall
    /\ val' = store(p, v)
    /\ effectQueue' = setTrap(p, v).s.q
    /\ microtasks' = setTrap(p, v).s.mt
    /\ idleQueue' = setTrap(p, v).s.iq
    /\ queuedEffects' = setTrap(p, v).qe
    /\ ops' = ops + 1
    /\ last' = Event("write", NoEffect, p, val[p] # v, {})
    /\ hits' = [e \in Effects |->
                   IF val[p] # v /\ p \in deps[e] THEN hits[e] + 1 ELSE hits[e]]
    /\ UNCHANGED <<depMap, created, deps, disposed, idle, activeEffect,
                   batched, hasIdle, stack, exc, runs, errors, escaped>>

\* Mutant of disposeReturnsEarly: no disposed check in dispose().
disposeNeverReturnsEarly(e) == FALSE

\* The first line of dispose(): nothing is done on a disposed wrapper.
disposeReturnsEarly(e) == disposed[e]

\* The end of dispose(): the array of fn (a new one when fn has none) is
\* stored under fn; the wrapper is not pushed onto it.
poolReturn(e) == [wrapperPool EXCEPT ![fnOf[e]].has = TRUE]

\* arr.push(v) through the proxy, called outside every effect body (its reads
\* of push and length are then not tracked): the set trap stores v at index
\* length, which moves length, and the set of length that follows stores the
\* value length already has and returns at the comparison.
Push(v) ==
    /\ MayCall
    /\ activeEffect = NoEffect
    /\ val[LengthOf("arr")] < Len(IdxKey)
    /\ LET p == <<"arr", IdxKey[val[LengthOf("arr")] + 1]>>
       IN  /\ val' = store(p, v)
           /\ effectQueue' = setTrap(p, v).s.q
           /\ microtasks' = setTrap(p, v).s.mt
           /\ idleQueue' = setTrap(p, v).s.iq
           /\ queuedEffects' = setTrap(p, v).qe
           /\ last' = Event("push", NoEffect, p, val[p] # v, {})
           /\ hits' = [e \in Effects |->
                          IF val[p] # v /\ p \in deps[e] THEN hits[e] + 1
                                                         ELSE hits[e]]
    /\ ops' = ops + 1
    /\ UNCHANGED <<depMap, created, deps, disposed, idle, activeEffect,
                   batched, hasIdle, stack, exc, runs, errors, escaped>>

\* wrapped.dispose(), on a handle effect() has returned.
Dispose(e) ==
    /\ MayCall
    /\ e \in created
    /\ \A i \in 1..Len(stack) : ~(stack[i].e = e /\ stack[i].via = "register")
    /\ IF disposeReturnsEarly(e)
       THEN UNCHANGED <<disposed, depMap, deps, wrapperPool>>
       ELSE /\ disposed' = [disposed EXCEPT ![e] = TRUE]
            /\ depMap' = cleanup(e).dm
            /\ deps' = cleanup(e).ds
            /\ wrapperPool' = poolReturn(e)
    /\ ops' = ops + 1
    /\ last' = Event("dispose", e, NoPair, ~disposed[e], {})
    /\ UNCHANGED <<val, created, idle, activeEffect, effectQueue, batched,
                   queuedEffects, hasIdle, microtasks, idleQueue, stack, exc,
                   runs, hits, errors, escaped, fnOf>>

\* batchUpdates(dataFn, renderFn) up to the call of dataFn.
BatchBegin(render) ==
    /\ MayCall
    /\ batched' = TRUE
    /\ stack' = Append(stack, BatchFrame(render))
    /\ ops' = ops + 1
    /\ last' = Event("batch", NoEffect, NoPair, render, {})
    /\ UNCHANGED <<val, depMap, created, deps, disposed, idle, activeEffect,
                   effectQueue, queuedEffects, hasIdle, microtasks, idleQueue,
                   exc, runs, hits, errors, escaped>>

\* Control leaves a batch's dataFn: the finally block of batchUpdates runs.
\* thrown: by an exception, which goes on to the caller of batchUpdates.
LeaveBatch(thrown) ==
    /\ batched' = batchFinally(Top.render).batched
    /\ queuedEffects' = batchFinally(Top.render).qe
    /\ effectQueue' = batchFinally(Top.render).s.q
    /\ microtasks' = batchFinally(Top.render).s.mt
    /\ idleQueue' = batchFinally(Top.render).s.iq
    /\ stack' = Pop
    /\ exc' = thrown
    /\ last' = Event("batchEnd", NoEffect, NoPair, thrown, SeqSet(queuedEffects))
    /\ UNCHANGED <<val, depMap, created, deps, disposed, idle, activeEffect,
                   hasIdle, runs, hits, errors, escaped>>

\* Control leaves an effect body: finally { activeEffect = null }.  thrown:
\* by an exception, which the catch clause gives to globalErrorHandler.
LeaveEffect(thrown) ==
    /\ activeEffect' = wrappedFinally(thrown)
    /\ stack' = Pop
    /\ exc' = (thrown /\ ~wrappedCatches)
    /\ errors' = IF thrown /\ wrappedCatches THEN errors + 1 ELSE errors
    /\ last' = Event(IF thrown THEN "caught" ELSE "return", Top.e, NoPair,
                     thrown, {})
    /\ UNCHANGED <<val, depMap, created, deps, disposed, idle, effectQueue,
                   batched, queuedEffects, hasIdle, microtasks, idleQueue,
                   runs, hits, escaped>>

\* The innermost user function returns normally.
Return ==
    /\ ~exc
    /\ stack # <<>>
    /\ \/ Top.t = "effect" /\ LeaveEffect(FALSE)
       \/ Top.t = "batch" /\ LeaveBatch(FALSE) /\ errors' = errors
    /\ ops' = ops

\* The innermost user function throws.
Throw ==
    /\ MayCall
    /\ stack # <<>>
    /\ \/ Top.t = "effect" /\ LeaveEffect(TRUE)
       \/ Top.t = "batch" /\ LeaveBatch(TRUE) /\ errors' = errors
    /\ ops' = ops + 1

\* An exception reaches the caller of the call it left: an effect body, a
\* dataFn, the try / catch of a flush or idle callback, or the host.
Unwind ==
    /\ exc
    /\ ops' = ops
    /\ IF stack = <<>>
       THEN /\ escaped' = escaped + 1
            /\ exc' = FALSE
            /\ last' = Event("uncaught", NoEffect, NoPair, TRUE, {})
            /\ UNCHANGED <<val, depMap, created, deps, disposed, idle,
                           activeEffect, effectQueue, batched, queuedEffects,
                           hasIdle, microtasks, idleQueue, stack, runs, hits,
                           errors>>
       ELSE \/ Top.t = "effect" /\ LeaveEffect(TRUE)
            \/ Top.t = "batch" /\ LeaveBatch(TRUE) /\ errors' = errors
            \/ /\ Top.t \in {"flush", "idle"}
               /\ errors' = errors + 1
               /\ exc' = FALSE
               /\ last' = Event("caught", NoEffect, NoPair, TRUE, {})
               /\ UNCHANGED <<val, depMap, created, deps, disposed, idle,
                              activeEffect, effectQueue, batched,
                              queuedEffects, hasIdle, microtasks, idleQueue,
                              stack, runs, hits, escaped>>

\* ---------------------------------------------------------------- callbacks
\* The host runs the next microtask: the flush callback of scheduleEffect
\* (snapshot the pending Set, clear it) or a batch's renderFn.
RunMicrotask ==
    /\ ~exc
    /\ stack = <<>>
    /\ microtasks # <<>>
    /\ microtasks' = Tail(microtasks)
    /\ IF Head(microtasks).k = "flush"
       THEN /\ stack' = <<CallbackFrame("flush", effectQueue, {})>>
            /\ effectQueue' = flushClear
            /\ last' = Event("flush", NoEffect, NoPair, FALSE, {})
       ELSE /\ UNCHANGED <<stack, effectQueue>>
            /\ last' = Event("render", NoEffect, NoPair,
                             Head(microtasks).waiting = {},
                             Head(microtasks).deferred)
    /\ UNCHANGED <<val, depMap, created, deps, disposed, idle, activeEffect,
                   batched, queuedEffects, hasIdle, idleQueue, exc, runs,
                   hits, errors, escaped, ops>>

\* The host is idle (no microtask waits) and runs the next idle callback.
RunIdle ==
    /\ ~exc
    /\ stack = <<>>
    /\ microtasks = <<>>
    /\ idleQueue # <<>>
    /\ idleQueue' = Tail(idleQueue)
    /\ stack' = <<CallbackFrame("idle", <<Head(idleQueue)>>, {})>>
    /\ last' = Event("idle", NoEffect, NoPair, FALSE, {})
    /\ UNCHANGED <<val, depMap, created, deps, disposed, idle, activeEffect,
                   effectQueue, batched, queuedEffects, hasIdle, microtasks,
                   exc, runs, hits, errors, escaped, ops>>

\* try { fn() }: a callback calls the next wrapper it holds, or ends.
CallbackStep ==
    /\ ~exc
    /\ stack # <<>>
    /\ Top.t \in {"flush", "idle"}
    /\ IF Top.rest = <<>>
       THEN /\ stack' = Pop
            /\ last' = Event("callbackEnd", NoEffect, NoPair, FALSE, {})
            /\ UNCHANGED <<depMap, deps, activeEffect, microtasks, runs>>
       ELSE /\ wrapped(Head(Top.rest),
                       Append(Pop, CallbackFrame(Top.t, Tail(Top.rest),
                                                 Top.done \cup {Head(Top.rest)})),
                       Top.t, microtasks)
            /\ last' = Event("call", Head(Top.rest), NoPair,
                             wrappedRuns(Head(Top.rest)), {})
    /\ UNCHANGED <<val, created, disposed, idle, effectQueue, batched,
                   queuedEffects, hasIdle, idleQueue, exc, hits, errors,
                   escaped, ops>>

\* ---------------------------------------------------------------- specification
\* Any program: every call and callback, in any order the host allows.
Next ==
    \/ \E e \in Effects, i \in BOOLEAN : Register(e, i) /\ UNCHANGED <<pc, ext>>
    \/ \E p \in Pairs : Read(p) /\ UNCHANGED <<pc, poolVars, ext>>
    \/ \E p \in Pairs, v \in Values : Write(p, v) /\ UNCHANGED <<pc, poolVars, ext>>
    \/ \E e \in Effects : Dispose(e) /\ UNCHANGED <<pc, ext>>
    \/ \E r \in BOOLEAN : BatchBegin(r) /\ UNCHANGED <<pc, poolVars, ext>>
    \/ Return /\ UNCHANGED <<pc, poolVars, ext>>
    \/ Throw /\ UNCHANGED <<pc, poolVars, ext>>
    \/ Unwind /\ UNCHANGED <<pc, poolVars, ext>>
    \/ RunMicrotask /\ UNCHANGED <<pc, poolVars, ext>>
    \/ RunIdle /\ UNCHANGED <<pc, poolVars, ext>>
    \/ CallbackStep /\ UNCHANGED <<pc, poolVars, ext>>

Spec == Init /\ [][Next]_vars

\* ---------------------------------------------------------------- scenario
\* One round of the tests of the engine: effects are registered (their bodies
\* read, and may throw), then keys are written, at top level ("plain") or
\* inside one batchUpdates call ("batch"), then the microtasks run.
Quiescent == stack = <<>> /\ microtasks = <<>> /\ ~exc

ScenarioInit == InitCore /\ InitExt /\ hasIdle /\ pc = "setup"

ScenarioNext ==
    \/ /\ pc = "setup"
       /\ \E e \in Effects : Register(e, FALSE)
       /\ UNCHANGED <<pc, ext>>
    \/ /\ pc \in {"setup", "drainPlain", "drainBatch"}
       /\ TopIs("effect")
       /\ \E p \in Pairs : Read(p)
       /\ UNCHANGED <<pc, poolVars, ext>>
    \/ /\ pc \in {"setup", "drainPlain", "drainBatch"}
       /\ TopIs("effect")
       /\ Return
       /\ UNCHANGED <<pc, poolVars, ext>>
    \/ /\ pc \in {"setup", "drainPlain", "drainBatch"}
       /\ TopIs("effect")
       /\ Throw
       /\ UNCHANGED <<pc, poolVars, ext>>
    \/ /\ pc = "setup"
       /\ stack = <<>>
       /\ created # {}
       /\ pc' = "plain"
       /\ UNCHANGED <<coreVars, histVars, poolVars, ext>>
    \/ /\ pc = "setup"
       /\ stack = <<>>
       /\ created # {}
       /\ BatchBegin(FALSE)
       /\ pc' = "batch"
       /\ UNCHANGED <<poolVars, ext>>
    \/ /\ pc \in {"plain", "batch"}
       /\ \E p \in Pairs, v \in Values : Write(p, v)
       /\ UNCHANGED <<pc, poolVars, ext>>
    \/ /\ pc = "plain"
       /\ pc' = "drainPlain"
       /\ UNCHANGED <<coreVars, histVars, poolVars, ext>>
    \/ /\ pc = "batch"
       /\ Return
       /\ pc' = "drainBatch"
       /\ UNCHANGED <<poolVars, ext>>
    \/ /\ pc \in {"drainPlain", "drainBatch"}
       /\ RunMicrotask
       /\ UNCHANGED <<pc, poolVars, ext>>
    \/ /\ pc \in {"drainPlain", "drainBatch"}
       /\ CallbackStep
       /\ UNCHANGED <<pc, poolVars, ext>>

ScenarioSpec == ScenarioInit /\ [][ScenarioNext]_vars

\* ---------------------------------------------------------------- pool
\* Programs that give effect() a function it was given before: effects of
\* normal priority over shared functions, reads, writes, disposals (also by
\* an effect's own body), and the flushes.
PoolInit == InitCore /\ InitExt /\ hasIdle /\ pc = "pool"

PoolNext ==
    \/ \E e \in Effects, f \in Fns : effect(e, f, FALSE) /\ UNCHANGED <<pc, ext>>
    \/ \E p \in Pairs : Read(p) /\ UNCHANGED <<pc, poolVars, ext>>
    \/ \E p \in Pairs, v \in Values : Write(p, v) /\ UNCHANGED <<pc, poolVars, ext>>
    \/ \E e \in Effects : Dispose(e) /\ UNCHANGED <<pc, ext>>
    \/ Return /\ UNCHANGED <<pc, poolVars, ext>>
    \/ RunMicrotask /\ UNCHANGED <<pc, poolVars, ext>>
    \/ CallbackStep /\ UNCHANGED <<pc, poolVars, ext>>

PoolSpec == PoolInit /\ [][PoolNext]_vars

\* ---------------------------------------------------------------- array
\* Programs on the wrapped array: effects read its keys, and its indices,
\* its length and its other key are written and elements are appended.
ArrValues(p) ==
    IF p[2] = "length" THEN 0..Len(IdxKey)
    ELSE IF isNumericKey(p[2]) THEN Values \cup {Undefined}
    ELSE Values

ArrayInit == InitCore /\ InitExt /\ hasIdle /\ pc = "array"

ArrayNext ==
    \/ \E e \in Effects, i \in BOOLEAN : Register(e, i) /\ UNCHANGED <<pc, ext>>
    \/ \E p \in ArrPairs : Read(p) /\ UNCHANGED <<pc, poolVars, ext>>
    \/ \E p \in ArrPairs : \E v \in ArrValues(p) :
           Write(p, v) /\ UNCHANGED <<pc, poolVars, ext>>
    \/ \E v \in Values \cup {Undefined} : Push(v) /\ UNCHANGED <<pc, poolVars, ext>>
    \/ Return /\ UNCHANGED <<pc, poolVars, ext>>
    \/ RunMicrotask /\ UNCHANGED <<pc, poolVars, ext>>
    \/ RunIdle /\ UNCHANGED <<pc, poolVars, ext>>
    \/ CallbackStep /\ UNCHANGED <<pc, poolVars, ext>>

ArraySpec == ArrayInit /\ [][ArrayNext]_vars

\* ---------------------------------------------------------------- state.js
\* typeof v === 'object' && v !== null
IsObject(v) == v \in Objs
\* Array.isArray(obj) ? 'Array' : Object.keys(obj).sort().join('|')
shapeKey(o) ==
    IF o = "a1" THEN "Array" ELSE IF o = "o1" THEN "child|list|n" ELSE "n"
cacheKey(o, mode) == <<mode, shapeKey(o)>>
\* The own properties of the objects and Reflect.get(target, prop).
Props(o) ==
    IF o = "o1" THEN {"child", "list", "n"}
    ELSE IF o = "o2" THEN {"n"}
    ELSE {"0", "length"}
Field(o, k) ==
    IF o = "o1" /\ k = "child" THEN "o2"
    ELSE IF o = "o1" /\ k = "list" THEN "a1"
    ELSE IF o = "a1" /\ k = "0" THEN "o2"
    ELSE "7"

\* Mutant of proxyCacheHit: the cache is not consulted.
proxyCacheMiss(v) == FALSE

\* proxyCache.has(obj)
proxyCacheHit(v) == proxyCache[v] # NoProxy

\* createState(obj, {mode}): what it returns and how it leaves the caches.
createState(v, mode) ==
    IF ~IsObject(v)
    THEN [ret |-> v, proxies |-> proxies, proxyCache |-> proxyCache,
          handlerCache |-> handlerCache]
    ELSE IF proxyCacheHit(v)
    THEN [ret |-> proxyCache[v], proxies |-> proxies,
          proxyCache |-> proxyCache, handlerCache |-> handlerCache]
    ELSE [ret |-> PNames[Len(proxies) + 1],
          proxies |-> Append(proxies, [target |-> v,
                                       handler |-> cacheKey(v, mode)]),
          proxyCache |-> [proxyCache EXCEPT ![v] = PNames[Len(proxies) + 1]],
          handlerCache |-> handlerCache \cup {cacheKey(v, mode)}]

engineVars == <<coreVars, histVars, poolVars>>

\* A call of createState by user code, on an unwrapped value.
Wrap(v, mode) ==
    /\ pc \in {"wrap", "local"}
    /\ Len(proxies) < Len(PNames)
    /\ ret' = createState(v, mode).ret
    /\ proxies' = createState(v, mode).proxies
    /\ proxyCache' = createState(v, mode).proxyCache
    /\ handlerCache' = createState(v, mode).handlerCache
    /\ UNCHANGED <<childCache, engineVars, listVars, localVars, bindVars, storeVars, virtVars, pc>>

\* A property read through proxy i outside every effect (track does
\* nothing): the get trap of the handler the proxy was made with.
Get(i, k) ==
    /\ pc = "wrap"
    /\ activeEffect = NoEffect
    /\ Len(proxies) < Len(PNames)
    /\ i \in 1..Len(proxies)
    /\ k \in Props(proxies[i].target)
    /\ LET h == proxies[i].handler
           v == Field(proxies[i].target, k)
       IN  IF h[1] = "deep" /\ IsObject(v)
           THEN IF childCache[h][v] # NoProxy
                THEN /\ ret' = childCache[h][v]
                     /\ UNCHANGED <<proxies, proxyCache, handlerCache,
                                    childCache>>
                ELSE /\ ret' = createState(v, h[1]).ret
                     /\ proxies' = createState(v, h[1]).proxies
                     /\ proxyCache' = createState(v, h[1]).proxyCache
                     /\ handlerCache' = createState(v, h[1]).handlerCache
                     /\ childCache' =
                            [childCache EXCEPT
                                ![h][v] = createState(v, h[1]).ret]
           ELSE /\ ret' = v
                /\ UNCHANGED <<proxies, proxyCache, handlerCache, childCache>>
    /\ UNCHANGED <<engineVars, listVars, localVars, bindVars, storeVars, virtVars, pc>>

WrapInit == InitCore /\ InitExt /\ hasIdle /\ pc = "wrap"

WrapNext ==
    \/ \E v \in Objs \cup Prims, m \in Modes : Wrap(v, m)
    \/ \E i \in 1..Len(PNames), k \in {"child", "list", "n", "0", "length"} :
           Get(i, k)

WrapSpec == WrapInit /\ [][WrapNext]_vars

\* ---------------------------------------------------------------- reactiveList.js
\* The keyed list of middle/reactiveList.js (mountList of core/list.js is
\* the same code).  The items are named by their key, getKey(item) = item.id;
\* renderItem makes a new node at each call and, for the ids of CleanupKeys,
\* registers a disposal function for it (as createTodoItem does).
cacheKeys(c) == [i \in 1..Len(c) |-> c[i].id]
cacheNodes(c) == [i \in 1..Len(c) |-> c[i].node]
\* nodeCache.get(id)
cacheGet(c, id) == (CHOOSE i \in 1..Len(c) : c[i].id = id)

\* Mutant of cacheHas: every item is taken for a new one.
cacheHasNever(c, id) == FALSE

\* nodeCache.get(id).node of the windowed list's records
NodeAt(c, id) == c[cacheGet(c, id)].node

\* nodeCache.has(id)
cacheHas(c, id) == id \in SeqSet(cacheKeys(c))

\* Mutant of seenIdsHas: every cached id is taken for a removed one.
seenIdsHasNever(seen, id) == FALSE

\* seenIds.has(id)
seenIdsHas(seen, id) == id \in seen

Without(s, x) == SelectSeq(s, LAMBDA y : y # x)

\* lifecycle.js.  disposalRegistry.get(node), NoFn for undefined.
registryGet(reg, node) ==
    IF \E p \in reg : p[1] = node
    THEN (CHOOSE p \in reg : p[1] = node)[2]
    ELSE NoFn

\* registerDisposal(node, disposeFn)
registerDisposal(reg, node, f) == {p \in reg : p[1] # node} \cup {<<node, f>>}

\* History: a call, with the node and the id or function it is about.
Call(ev, node, arg) == [ev |-> ev, node |-> node, arg |-> arg]

\* Mutant of disposeNode: the function is not called.
disposeNodeSilently(reg, lg, node) ==
    [reg |-> {p \in reg : p[1] # node}, log |-> lg]

\* Mutant of disposeNode: the entry is kept.
disposeNodeKeepsEntry(reg, lg, node) ==
    [reg |-> reg,
     log |-> IF registryGet(reg, node) # NoFn
             THEN Append(lg, Call("cleanup", node, registryGet(reg, node)))
             ELSE lg]

\* disposeNode(node): calls the function the node has, deletes the entry.
disposeNode(reg, lg, node) ==
    [reg |-> {p \in reg : p[1] # node},
     log |-> IF registryGet(reg, node) # NoFn
             THEN Append(lg, Call("cleanup", node, registryGet(reg, node)))
             ELSE lg]

\* The disposal function renderItem registers for the node of an item.
cleanupOf(id) == IF id = "1" THEN "f1" ELSE "f2"

\* Mutant of mountItem: the new node is inserted before the other children.
mountItemInFront(st, id) ==
    LET node == st.made + 1
    IN  [st EXCEPT
            !.made = node,
            !.registry = IF id \in CleanupKeys
                         THEN registerDisposal(@, node, cleanupOf(id))
                         ELSE @,
            !.cache = Append(@, [id |-> id, node |-> node]),
            !.container = <<node>> \o @,
            !.log = @ \o <<Call("render", node, id), Call("append", node, id)>>,
            !.life[id] = @ + 1,
            !.render[id] = @ + 1]

\* renderItem(item), nodeCache.set(id, node), container.appendChild(node).
mountItem(st, id) ==
    LET node == st.made + 1
    IN  [st EXCEPT
            !.made = node,
            !.registry = IF id \in CleanupKeys
                         THEN registerDisposal(@, node, cleanupOf(id))
                         ELSE @,
            !.cache = Append(@, [id |-> id, node |-> node]),
            !.container = Append(Without(@, node), node),
            !.log = @ \o <<Call("render", node, id), Call("append", node, id)>>,
            !.life[id] = @ + 1,
            !.render[id] = @ + 1]

\* disposeNode(node), container.removeChild(node), nodeCache.delete(id).
unmountItem(st, id) ==
    LET node == st.cache[cacheGet(st.cache, id)].node
    IN  [st EXCEPT
            !.cleanup[id] = IF registryGet(st.registry, node) # NoFn
                            THEN @ + 1 ELSE @,
            !.registry = disposeNode(st.registry, st.log, node).reg,
            !.log = Append(disposeNode(st.registry, st.log, node).log,
                           Call("remove", node, id)),
            !.container = Without(@, node),
            !.cache = SelectSeq(@, LAMBDA c : c.id # id),
            !.life[id] = 0]

\* items.forEach(...): the first loop of the effect body.
RECURSIVE mountLoop(_, _)
mountLoop(st, its) ==
    IF its = <<>> THEN st
    ELSE mountLoop(IF cacheHas(st.cache, Head(its)) THEN st
                   ELSE mountItem(st, Head(its)),
                   Tail(its))

\* Array.from(nodeCache.keys()).forEach(...): the second loop, over the
\* keys the cache had when the loop began.
RECURSIVE unmountLoop(_, _, _)
unmountLoop(st, ids, seen) ==
    IF ids = <<>> THEN st
    ELSE unmountLoop(IF seenIdsHas(seen, Head(ids)) THEN st
                     ELSE unmountItem(st, Head(ids)),
                     Tail(ids), seen)

\* The body of the root effect after getItems(): both loops.
reconcile(its) ==
    LET st0 == [cache |-> nodeCache, container |-> container,
                registry |-> disposalRegistry, log |-> log, made |-> made,
                life |-> life,
                render |-> [k \in ListKeys |-> 0],
                cleanup |-> [k \in ListKeys |-> 0]]
        st1 == mountLoop(st0, its)
    IN  unmountLoop(st1, cacheKeys(st1.cache), SeqSet(its))

\* reactiveList(container, getItems, getKey, renderItem): registers the
\* root effect, whose body starts at once.
MountList(e) ==
    /\ rootEffect = NoEffect
    /\ stack = <<>>
    /\ Register(e, FALSE)
    /\ rootEffect' = e
    /\ UNCHANGED <<items, nodeCache, container, disposalRegistry, log, made,
                   life, pass>>

\* A run of the root effect's body: getItems() reads the items through the
\* proxy, then the two loops.
Reconcile ==
    /\ TopIs("effect")
    /\ Top.e = rootEffect
    /\ last.op \in {"effect", "call"}
    /\ Read(ItemsPair)
    /\ nodeCache' = reconcile(items).cache
    /\ container' = reconcile(items).container
    /\ disposalRegistry' = reconcile(items).registry
    /\ log' = reconcile(items).log
    /\ made' = reconcile(items).made
    /\ life' = reconcile(items).life
    /\ pass' = [old |-> SeqSet(cacheKeys(nodeCache)), new |-> SeqSet(items),
                render |-> reconcile(items).render,
                cleanup |-> reconcile(items).cleanup]
    /\ UNCHANGED <<items, rootEffect>>

\* The body of the root effect returns after its loops.
ReturnFromPass == last.op = "read" /\ Return

\* The application assigns a new array to the items property.
SetItems(its) ==
    /\ stack = <<>>
    /\ Write(ItemsPair, 1 - val[ItemsPair])
    /\ items' = its
    /\ UNCHANGED <<rootEffect, nodeCache, container, disposalRegistry, log,
                   made, life, pass>>

\* Array.from(nodeCache.values()).forEach(...) of the unmount function:
\* disposeNode(node), container.removeChild(node).
RECURSIVE unmountAll(_, _)
unmountAll(st, cs) ==
    IF cs = <<>> THEN st
    ELSE LET node == Head(cs).node
         IN  unmountAll(
                 [reg |-> disposeNode(st.reg, st.log, node).reg,
                  log |-> Append(disposeNode(st.reg, st.log, node).log,
                                 Call("remove", node, Head(cs).id)),
                  container |-> Without(st.container, node)],
                 Tail(cs))

\* The function reactiveList returned: disposes the root effect, tears
\* down every cached node, clears the cache.
Unmount ==
    /\ stack = <<>>
    /\ rootEffect # NoEffect
    /\ Dispose(rootEffect)
    /\ LET st == unmountAll([reg |-> disposalRegistry, log |-> log,
                             container |-> container], nodeCache)
       IN  /\ disposalRegistry' = st.reg
           /\ log' = st.log
           /\ container' = st.container
    /\ nodeCache' = <<>>
    /\ life' = [k \in ListKeys |-> 0]
    /\ UNCHANGED <<items, rootEffect, made, pass>>

ListInit ==
    /\ InitCore /\ InitWrap /\ InitList /\ InitLocal /\ InitVirt /\ InitBind /\ InitStore
    /\ items \in ItemSeqs
    /\ hasIdle
    /\ pc = "list"

ListNext ==
    \/ MountList("e1") /\ UNCHANGED <<pc, wrapVars, localVars, bindVars, storeVars, virtVars>>
    \/ Reconcile /\ UNCHANGED <<pc, poolVars, wrapVars, localVars, bindVars, storeVars, virtVars>>
    \/ ReturnFromPass /\ UNCHANGED <<pc, poolVars, ext>>
    \/ \E its \in ItemSeqs :
           SetItems(its) /\ UNCHANGED <<pc, poolVars, wrapVars, localVars, bindVars, storeVars, virtVars>>
    \/ Unmount /\ UNCHANGED <<pc, wrapVars, localVars, bindVars, storeVars, virtVars>>
    \/ RunMicrotask /\ UNCHANGED <<pc, poolVars, ext>>
    \/ CallbackStep /\ UNCHANGED <<pc, poolVars, ext>>

ListSpec == ListInit /\ [][ListNext]_vars

\* ---------------------------------------------------------------- lifecycle.js
\* Programs that call registerDisposal and disposeNode themselves, on two
\* nodes and with two functions.
RegNodes == {1, 2}
notRegistry == <<coreVars, runs, hits, errors, escaped, pc, poolVars, wrapVars,
                 localVars, bindVars, storeVars, virtVars, items, rootEffect, nodeCache, container, made, life, pass>>

RegisterDisposalCall(n, f) ==
    /\ pc = "registry"
    /\ ops < Budget
    /\ disposalRegistry' = registerDisposal(disposalRegistry, n, f)
    /\ ops' = ops + 1
    /\ last' = Event("registerDisposal", NoEffect, n, TRUE, {})
    /\ UNCHANGED <<log, notRegistry>>

DisposeNodeCall(n) ==
    /\ pc = "registry"
    /\ ops < Budget
    /\ disposalRegistry' = disposeNode(disposalRegistry, log, n).reg
    /\ log' = disposeNode(disposalRegistry, log, n).log
    /\ ops' = ops + 1
    /\ last' = Event("disposeNode", NoEffect, n,
                     registryGet(disposalRegistry, n) # NoFn, {})
    /\ UNCHANGED notRegistry

RegistryInit == InitCore /\ InitExt /\ hasIdle /\ pc = "registry"

RegistryNext ==
    \/ \E n \in RegNodes, f \in Fns : RegisterDisposalCall(n, f)
    \/ \E n \in RegNodes : DisposeNodeCall(n)

RegistrySpec == RegistryInit /\ [][RegistryNext]_vars

\* ---------------------------------------------------------------- local.js
\* Programs with keyed local states: createLocalState and disposeLocalState
\* on two keys, effects that read the stored states through their proxies,
\* and writes through them.  The initial values are o1, o2 (the objects the
\* dependency graph knows as t1, t2) and a primitive; the program may
\* have given o1 or o2 to createState in deep mode before.
LocalInits == {"o1", "o2", "7"}
\* The property of a local state the program reads and writes.
LocalProps == {"a"}
engineTarget(o) == IF o = "o1" THEN "t1" ELSE "t2"
PairOf(i, k) == <<engineTarget(proxies[i].target), k>>

\* Mutant of localHas: the Map is not consulted.
localHasNever(m, key) == FALSE

\* localStateMap.has(key)
localHas(m, key) == m[key] # Absent

\* Mutant of localDelete: the Map is cleared.
localDeleteAll(m, key) == [k \in LocalKeys |-> Absent]

\* localStateMap.delete(key)
localDelete(m, key) == [m EXCEPT ![key] = Absent]

\* createLocalState(key, initial)
CreateLocalState(key, init) ==
    /\ pc = "local"
    /\ MayCall
    /\ IF localHas(localStateMap, key)
       THEN /\ ret' = localStateMap[key]
            /\ UNCHANGED <<localStateMap, proxies, proxyCache, handlerCache>>
       ELSE /\ localStateMap' =
                   [localStateMap EXCEPT
                       ![key] = createState(init, "shallow").ret]
            /\ ret' = createState(init, "shallow").ret
            /\ proxies' = createState(init, "shallow").proxies
            /\ proxyCache' = createState(init, "shallow").proxyCache
            /\ handlerCache' = createState(init, "shallow").handlerCache
    /\ ops' = ops + 1
    /\ last' = Event("createLocalState", NoEffect, key,
                     ~localHas(localStateMap, key), {})
    /\ UNCHANGED <<coreVars, runs, hits, errors, escaped, pc, poolVars,
                   childCache, listVars, virtVars, bindVars, storeVars>>

\* disposeLocalState(key)
DisposeLocalState(key) ==
    /\ pc = "local"
    /\ MayCall
    /\ localStateMap' = localDelete(localStateMap, key)
    /\ ops' = ops + 1
    /\ last' = Event("disposeLocalState", NoEffect, key,
                     localHas(localStateMap, key), {})
    /\ UNCHANGED <<coreVars, runs, hits, errors, escaped, pc, poolVars,
                   wrapVars, listVars, virtVars, bindVars, storeVars>>

\* A property read or write through proxy i, which the program got from
\* createLocalState and may still hold after the key was disposed.
ReadProxy(i, k) ==
    /\ pc = "local"
    /\ i \in 1..Len(proxies)
    /\ PairOf(i, k) \in Pairs
    /\ Read(PairOf(i, k))

WriteProxy(i, k, v) ==
    /\ pc = "local"
    /\ i \in 1..Len(proxies)
    /\ PairOf(i, k) \in Pairs
    /\ Write(PairOf(i, k), v)

LocalInit == InitCore /\ InitExt /\ hasIdle /\ pc = "local"

LocalNext ==
    \/ \E key \in LocalKeys, init \in LocalInits : CreateLocalState(key, init)
    \/ \E key \in LocalKeys : DisposeLocalState(key)
    \/ \E v \in LocalInits : ops = 0 /\ Wrap(v, "deep")
    \/ \E e \in Effects : Register(e, FALSE) /\ UNCHANGED <<pc, ext>>
    \/ \E i \in 1..Len(PNames), k \in LocalProps :
           ReadProxy(i, k) /\ UNCHANGED <<pc, poolVars, ext>>
    \/ \E i \in 1..Len(PNames), k \in LocalProps, v \in Values :
           WriteProxy(i, k, v) /\ UNCHANGED <<pc, poolVars, ext>>
    \/ Return /\ UNCHANGED <<pc, poolVars, ext>>
    \/ RunMicrotask /\ UNCHANGED <<pc, poolVars, ext>>
    \/ CallbackStep /\ UNCHANGED <<pc, poolVars, ext>>

LocalSpec == LocalInit /\ [][LocalNext]_vars

\* ---------------------------------------------------------------- virtualList
\* The windowed list (virtualList): the keyed list over the items whose
\* index is in the window the scroll position gives.  The items have
\* distinct ids; renderItem is the one of the keyed list.
VItemSeqs ==
    {<<>>} \cup {<<k>> : k \in ListKeys}
        \cup {<<k, l>> : k, l \in ListKeys} \cup {<<k, l, m>> : k, l, m \in ListKeys}
UniqueItems == {its \in VItemSeqs : NoDup(its)}
ScrollTops == 0..MaxScroll
Max(a, b) == IF a >= b THEN a ELSE b
Min(a, b) == IF a <= b THEN a ELSE b
\* Math.floor(a / b) and Math.ceil(a / b) for a >= 0, b > 0.
floorDiv(a, b) == a \div b
ceilDiv(a, b) == (a + b - 1) \div b

\* Mutant of startIdxOf: the buffer is not taken off.
startIdxNoBuffer(v) == Max(0, floorDiv(v.scrollTop, v.itemHeight))

\* startIdx and endIdx of a pass.
startIdxOf(v) == Max(0, floorDiv(v.scrollTop, v.itemHeight) - v.buffer)
endIdxOf(v, total) ==
    Min(total, ceilDiv(v.scrollTop + v.clientHeight, v.itemHeight) + v.buffer)

\* One round of the for loop: the item at index i (items[i]) is rendered
\* and cached with its index, or its record gets the index; in both cases
\* the node goes to the end of the fragment.
windowItem(st, i, id) ==
    IF cacheHas(st.cache, id)
    THEN LET node == NodeAt(st.cache, id)
         IN  [st EXCEPT
                 !.cache = [j \in 1..Len(@) |->
                               IF @[j].id = id THEN [@[j] EXCEPT !.index = i]
                               ELSE @[j]],
                 !.container = Without(@, node),
                 !.frag = Append(Without(@, node), node),
                 !.active = @ \cup {id}]
    ELSE LET node == st.made + 1
         IN  [st EXCEPT
                 !.made = node,
                 !.registry = IF id \in CleanupKeys
                              THEN registerDisposal(@, node, cleanupOf(id))
                              ELSE @,
                 !.cache = Append(@, [id |-> id, node |-> node, index |-> i]),
                 !.frag = Append(@, node),
                 !.log = Append(@, Call("render", node, id)),
                 !.life[id] = @ + 1,
                 !.render[id] = @ + 1,
                 !.active = @ \cup {id}]

\* for (let i = startIdx; i < endIdx; i++)
RECURSIVE windowLoop(_, _, _, _)
windowLoop(st, i, endIdx, its) ==
    IF i >= endIdx THEN st
    ELSE windowLoop(windowItem(st, i, its[i + 1]), i + 1, endIdx, its)

\* One round of the loop over the cache: a record whose key is not active
\* is taken out of the content (if it is there) and deleted.
dropRecord(st, c) ==
    IF c.id \in st.active THEN st
    ELSE [st EXCEPT
             !.container = Without(@, c.node),
             !.log = IF c.node \in SeqSet(st.container)
                     THEN Append(@, Call("remove", c.node, c.id))
                     ELSE @,
             !.cache = SelectSeq(@, LAMBDA d : d.id # c.id),
             !.life[c.id] = 0]

\* for (const [key, record] of nodeCache)
RECURSIVE dropLoop(_, _)
dropLoop(st, cs) ==
    IF cs = <<>> THEN st ELSE dropLoop(dropRecord(st, Head(cs)), Tail(cs))

\* The body of the root effect after getItems(): the window, both loops,
\* content.appendChild(frag).
window(its, v) ==
    LET st0 == [cache |-> nodeCache, container |-> container, frag |-> <<>>,
                registry |-> disposalRegistry, log |-> log, made |-> made,
                life |-> life, active |-> {},
                render |-> [k \in ListKeys |-> 0],
                cleanup |-> [k \in ListKeys |-> 0]]
        st1 == windowLoop(st0, startIdxOf(v), endIdxOf(v, Len(its)), its)
        st2 == dropLoop(st1, st1.cache)
    IN  [st2 EXCEPT
            !.container = @ \o st2.frag,
            !.log = @ \o [j \in 1..Len(st2.frag) |->
                             Call("append", st2.frag[j], "frag")]]

\* virtualList(container, getItems, getKey, renderItem, opts): registers
\* the root effect, whose body starts at once.
MountVirtual(e) ==
    /\ rootEffect = NoEffect
    /\ stack = <<>>
    /\ Register(e, FALSE)
    /\ rootEffect' = e
    /\ UNCHANGED <<items, nodeCache, container, disposalRegistry, log, made,
                   life, pass, view>>

\* A run of the root effect's body.
ReconcileWindow ==
    /\ TopIs("effect")
    /\ Top.e = rootEffect
    /\ last.op \in {"effect", "call", "scroll"}
    /\ Read(ItemsPair)
    /\ nodeCache' = window(items, view).cache
    /\ container' = window(items, view).container
    /\ disposalRegistry' = window(items, view).registry
    /\ log' = window(items, view).log
    /\ made' = window(items, view).made
    /\ life' = window(items, view).life
    /\ pass' = [old |-> SeqSet(cacheKeys(nodeCache)),
                new |-> window(items, view).active,
                render |-> window(items, view).render,
                cleanup |-> window(items, view).cleanup]
    /\ view' = [view EXCEPT !.startIdx = startIdxOf(view),
                            !.endIdx = endIdxOf(view, Len(items))]
    /\ UNCHANGED <<items, rootEffect>>

\* The container is scrolled: the listener calls rootEffect().
Scroll(top) ==
    /\ stack = <<>>
    /\ ~exc
    /\ rootEffect # NoEffect
    /\ ops < Budget
    /\ top # view.scrollTop
    /\ view' = [view EXCEPT !.scrollTop = top]
    /\ wrapped(rootEffect, stack, "scroll", microtasks)
    /\ ops' = ops + 1
    /\ last' = Event("scroll", rootEffect, NoPair, wrappedRuns(rootEffect), {})
    /\ UNCHANGED <<val, created, disposed, idle, effectQueue, batched,
                   queuedEffects, hasIdle, idleQueue, exc, hits, errors,
                   escaped, poolVars, items, rootEffect, nodeCache, container,
                   disposalRegistry, log, made, life, pass>>

\* for (const { node } of nodeCache.values()) of the unmount function:
\* disposeNode(node), content.removeChild(node) if it is a child.
RECURSIVE unmountWindow(_, _)
unmountWindow(st, cs) ==
    IF cs = <<>> THEN st
    ELSE LET node == Head(cs).node
             d == disposeNode(st.reg, st.log, node)
         IN  unmountWindow(
                 [reg |-> d.reg,
                  log |-> IF node \in SeqSet(st.container)
                          THEN Append(d.log, Call("remove", node, Head(cs).id))
                          ELSE d.log,
                  container |-> Without(st.container, node)],
                 Tail(cs))

\* The function virtualList returned.
UnmountVirtual ==
    /\ stack = <<>>
    /\ rootEffect # NoEffect
    /\ Dispose(rootEffect)
    /\ LET st == unmountWindow([reg |-> disposalRegistry, log |-> log,
                                container |-> container], nodeCache)
       IN  /\ disposalRegistry' = st.reg
           /\ log' = st.log
           /\ container' = st.container
    /\ nodeCache' = <<>>
    /\ life' = [k \in ListKeys |-> 0]
    /\ UNCHANGED <<items, rootEffect, made, pass, view>>

VirtualInit ==
    /\ InitCore /\ InitWrap /\ InitList /\ InitLocal /\ InitBind /\ InitStore
    /\ items \in UniqueItems
    /\ view \in [scrollTop : {0}, clientHeight : {1, 2}, itemHeight : {2},
                 buffer : {0, 1}, startIdx : {0}, endIdx : {0}]
    /\ hasIdle
    /\ pc = "virtual"

VirtualNext ==
    \/ MountVirtual("e1") /\ UNCHANGED <<pc, wrapVars, localVars, bindVars, storeVars>>
    \/ ReconcileWindow /\ UNCHANGED <<pc, poolVars, wrapVars, localVars, bindVars, storeVars>>
    \/ ReturnFromPass /\ UNCHANGED <<pc, poolVars, ext>>
    \/ \E its \in UniqueItems :
           SetItems(its) /\ UNCHANGED <<pc, poolVars, wrapVars, localVars, bindVars, storeVars, virtVars>>
    \/ \E top \in ScrollTops : Scroll(top) /\ UNCHANGED <<pc, wrapVars, localVars, bindVars, storeVars>>
    \/ UnmountVirtual /\ UNCHANGED <<pc, wrapVars, localVars, bindVars, storeVars>>
    \/ RunMicrotask /\ UNCHANGED <<pc, poolVars, ext>>
    \/ CallbackStep /\ UNCHANGED <<pc, poolVars, ext>>

VirtualSpec == VirtualInit /\ [][VirtualNext]_vars

\* ---------------------------------------------------------------- bindList.js
\* Programs that register renderers and bind a list: the first argument of
\* registerListRenderer and the value getItems() returns to bindList are one
\* of two arrays or a plain object, cfg.key and cfg.render are functions or
\* not, and opts.virtual is absent or gives the sizes of a window.
Arrays == {"a1", "a2"}
BindArgs == Arrays \cup {"o1"}
VirtualOpts == [scrollTop : {0}, clientHeight : {1}, itemHeight : {2},
                buffer : {0, 1}, startIdx : {0}, endIdx : {0}]

\* Mutant of registerThrows: the argument checks are missing.
registerThrowsNever(a, keyFn, renderFn) == FALSE

\* The two checks of registerListRenderer: !Array.isArray(array), and
\* typeof cfg.key !== 'function' || typeof cfg.render !== 'function'.
registerThrows(a, keyFn, renderFn) == a \notin Arrays \/ ~keyFn \/ ~renderFn

\* Mutant of bindThrows: a missing configuration is not noticed.
bindThrowsNever(reg, a) == FALSE

\* !cfg, with cfg = rendererRegistry.get(array)
bindThrows(reg, a) == a \notin reg

\* registerListRenderer(array, cfg), called at top level.
RegisterListRenderer(a, keyFn, renderFn) ==
    /\ pc = "bind"
    /\ stack = <<>>
    /\ MayCall
    /\ IF registerThrows(a, keyFn, renderFn)
       THEN exc' = TRUE /\ rendererRegistry' = rendererRegistry
       ELSE exc' = exc /\ rendererRegistry' = rendererRegistry \cup {a}
    /\ ops' = ops + 1
    /\ last' = Event("registerListRenderer", NoEffect, a,
                     registerThrows(a, keyFn, renderFn), {})
    /\ UNCHANGED <<val, depMap, created, deps, disposed, idle, activeEffect,
                   effectQueue, batched, queuedEffects, hasIdle, microtasks,
                   idleQueue, stack, runs, hits, errors, escaped, pc, poolVars,
                   wrapVars, listVars, localVars, virtVars, storeVars>>

\* bindList(container, getItems, opts), called at top level, where the read
\* getItems() makes is not tracked; a is the array it returns.  With a
\* configuration the list is mounted, by virtualList when opts.virtual is
\* given (virtual # NoView) and by reactiveList otherwise.
BindList(a, virtual) ==
    /\ pc = "bind"
    /\ stack = <<>>
    /\ MayCall
    /\ rootEffect = NoEffect
    /\ IF bindThrows(rendererRegistry, a)
       THEN /\ exc' = TRUE
            /\ ops' = ops + 1
            /\ last' = Event("bindList", NoEffect, a, TRUE, {})
            /\ UNCHANGED <<val, depMap, created, deps, disposed, idle,
                           activeEffect, effectQueue, batched, queuedEffects,
                           hasIdle, microtasks, idleQueue, stack, runs, hits,
                           errors, escaped, poolVars, listVars, virtVars>>
       ELSE /\ Register("e1", FALSE)
            /\ rootEffect' = "e1"
            /\ view' = virtual
            /\ UNCHANGED <<items, nodeCache, container, disposalRegistry, log,
                           made, life, pass>>
    /\ UNCHANGED <<pc, wrapVars, localVars, bindVars, storeVars>>

BindInit ==
    /\ InitCore /\ InitWrap /\ InitList /\ InitLocal /\ InitVirt /\ InitBind /\ InitStore
    /\ items \in ItemSeqs
    /\ hasIdle
    /\ pc = "bind"

BindNext ==
    \/ \E a \in BindArgs, keyFn, renderFn \in BOOLEAN :
           RegisterListRenderer(a, keyFn, renderFn)
    \/ \E a \in BindArgs, virtual \in VirtualOpts \cup {NoView} : BindList(a, virtual)
    \/ Unwind /\ UNCHANGED <<pc, poolVars, ext>>
    \/ /\ view = NoView
       /\ Reconcile
       /\ UNCHANGED <<pc, poolVars, wrapVars, localVars, bindVars, storeVars, virtVars>>
    \/ /\ view # NoView
       /\ ReconcileWindow
       /\ UNCHANGED <<pc, poolVars, wrapVars, localVars, bindVars, storeVars>>
    \/ ReturnFromPass /\ UNCHANGED <<pc, poolVars, ext>>
    \/ \E its \in ItemSeqs :
           SetItems(its)
               /\ UNCHANGED <<pc, poolVars, wrapVars, localVars, bindVars, storeVars, virtVars>>
    \/ RunMicrotask /\ UNCHANGED <<pc, poolVars, ext>>
    \/ CallbackStep /\ UNCHANGED <<pc, poolVars, ext>>

BindSpec == BindInit /\ [][BindNext]_vars

\* ---------------------------------------------------------------- store.js
\* Programs over a store that holds an array under one key (t1.a here, the
\* key of ItemsPair): effects read the key and, through the array wrapper a
\* deep store returns, the array's indices and length; the key is assigned
\* one of two arrays (0, the array arr, and 1); and arr is changed in place.
StoreArrPairs == {"arr"} \X {"0", "1", "length"}

\* Mutant of inPlace: a change of the array also triggers the key that
\* holds it.
inPlaceTriggersHolder(mode, p, v) == trigger(ItemsPair)

\* What a write to the array returned by store.todos schedules.  A deep
\* store returns the array's wrapper and the write goes through its set
\* trap; a shallow or manual store returns the array itself, and the write
\* meets no trap.
inPlace(mode, p, v) ==
    IF mode = "deep" THEN setTrap(p, v) ELSE [s |-> Sched, qe |-> queuedEffects]

\* getTodos(): store.todos
ReadTodos == pc = "store" /\ Read(ItemsPair)

\* todos[i], todos.length in an effect body: tracked only through a wrapper.
ReadArray(p) ==
    /\ pc = "store"
    /\ storeMode = "deep"
    /\ TopIs("effect")
    /\ Read(p)

\* store.todos = array
AssignTodos(v) == pc = "store" /\ Write(ItemsPair, v)

\* store.todos.push(x), store.todos[i] = x, store.todos.length = n, called
\* at top level: one write to the array in place.
MutateInPlace(p, v) ==
    /\ pc = "store"
    /\ stack = <<>>
    /\ MayCall
    /\ IsArray(p[1])
    /\ val' = store(p, v)
    /\ effectQueue' = inPlace(storeMode, p, v).s.q
    /\ microtasks' = inPlace(storeMode, p, v).s.mt
    /\ idleQueue' = inPlace(storeMode, p, v).s.iq
    /\ queuedEffects' = inPlace(storeMode, p, v).qe
    /\ ops' = ops + 1
    /\ last' = Event("mutate", NoEffect, p, val[p] # v, {})
    /\ hits' = [e \in Effects |->
                   IF val[p] # v /\ p \in deps[e] THEN hits[e] + 1 ELSE hits[e]]
    /\ UNCHANGED <<depMap, created, deps, disposed, idle, activeEffect,
                   batched, hasIdle, stack, exc, runs, errors, escaped>>

StoreInit ==
    /\ InitCore /\ InitWrap /\ InitList /\ items = <<>> /\ InitLocal /\ InitVirt
    /\ InitBind
    /\ storeMode \in Modes
    /\ hasIdle
    /\ pc = "store"

StoreNext ==
    \/ \E e \in Effects : Register(e, FALSE) /\ UNCHANGED <<pc, ext>>
    \/ ReadTodos /\ UNCHANGED <<pc, poolVars, ext>>
    \/ \E p \in StoreArrPairs : ReadArray(p) /\ UNCHANGED <<pc, poolVars, ext>>
    \/ \E v \in Values : AssignTodos(v) /\ UNCHANGED <<pc, poolVars, ext>>
    \/ \E p \in StoreArrPairs : \E v \in ArrValues(p) :
           MutateInPlace(p, v) /\ UNCHANGED <<pc, poolVars, ext>>
    \/ Return /\ UNCHANGED <<pc, poolVars, ext>>
    \/ RunMicrotask /\ UNCHANGED <<pc, poolVars, ext>>
    \/ CallbackStep /\ UNCHANGED <<pc, poolVars, ext>>

StoreSpec == StoreInit /\ [][StoreNext]_vars

\* ---------------------------------------------------------------- trigger
\* Programs that change the array itself and call the exported trigger:
\* effects, idle or not, read keys of the array; the program stores into the
\* array without a wrapper and calls trigger(arr, key).
TriggerCall(p) ==
    /\ pc = "trigger"
    /\ MayCall
    /\ LET st == triggerAt([s |-> Sched, qe |-> queuedEffects], val, p)
       IN  /\ effectQueue' = st.s.q
           /\ microtasks' = st.s.mt
           /\ idleQueue' = st.s.iq
           /\ queuedEffects' = st.qe
    /\ ops' = ops + 1
    /\ last' = Event("trigger", NoEffect, p, FALSE, SeqSet(effectsToRun(val, p)))
    /\ UNCHANGED <<val, depMap, created, deps, disposed, idle, activeEffect,
                   batched, hasIdle, stack, exc, runs, hits, errors, escaped>>

\* arr[i] = v, arr.length = n on the array itself: no trap, no trigger.
RawStore(p, v) ==
    /\ pc = "trigger"
    /\ MayCall
    /\ val[p] # v
    /\ val' = store(p, v)
    /\ ops' = ops + 1
    /\ last' = Event("store", NoEffect, p, TRUE, {})
    /\ UNCHANGED <<depMap, created, deps, disposed, idle, activeEffect,
                   effectQueue, batched, queuedEffects, hasIdle, microtasks,
                   idleQueue, stack, exc, runs, hits, errors, escaped>>

TriggerInit == InitCore /\ InitExt /\ hasIdle /\ pc = "trigger"

TriggerNext ==
    \/ \E e \in Effects, i \in BOOLEAN : Register(e, i) /\ UNCHANGED <<pc, ext>>
    \/ \E p \in ArrPairs : Read(p) /\ UNCHANGED <<pc, poolVars, ext>>
    \/ \E p \in ArrPairs : TriggerCall(p) /\ UNCHANGED <<pc, poolVars, ext>>
    \/ \E p \in StoreArrPairs : \E v \in ArrValues(p) :
           RawStore(p, v) /\ UNCHANGED <<pc, poolVars, ext>>
    \/ Return /\ UNCHANGED <<pc, poolVars, ext>>
    \/ RunMicrotask /\ UNCHANGED <<pc, poolVars, ext>>
    \/ RunIdle /\ UNCHANGED <<pc, poolVars, ext>>
    \/ CallbackStep /\ UNCHANGED <<pc, poolVars, ext>>

TriggerSpec == TriggerInit /\ [][TriggerNext]_vars

\* ---------------------------------------------------------------- renderItem throws
\* The keyed list with a renderItem that throws for the items of some ids
\* (before it has made a node or registered anything).
ThrowKeys == {"3"}
renderThrows(id) == id \in ThrowKeys

\* Mutant of removalRuns: the second loop runs whatever the first did.
removalRunsAlways(st) == TRUE

\* The second loop is reached only when the first has not thrown: nothing
\* in the body catches.
removalRuns(st) == ~st.thrown

\* items.forEach(...) up to the first renderItem that throws.
RECURSIVE mountLoopUntilThrow(_, _)
mountLoopUntilThrow(st, its) ==
    IF its = <<>> THEN st
    ELSE IF cacheHas(st.cache, Head(its))
    THEN mountLoopUntilThrow(st, Tail(its))
    ELSE IF renderThrows(Head(its))
    THEN [st EXCEPT !.thrown = TRUE,
                    !.log = Append(@, Call("render", 0, Head(its)))]
    ELSE mountLoopUntilThrow(mountItem(st, Head(its)), Tail(its))

\* The body of the root effect after getItems().
reconcileOrThrow(its) ==
    LET st0 == [cache |-> nodeCache, container |-> container,
                registry |-> disposalRegistry, log |-> log, made |-> made,
                life |-> life,
                render |-> [k \in ListKeys |-> 0],
                cleanup |-> [k \in ListKeys |-> 0],
                thrown |-> FALSE]
        st1 == mountLoopUntilThrow(st0, its)
    IN  IF removalRuns(st1)
        THEN unmountLoop(st1, cacheKeys(st1.cache), SeqSet(its))
        ELSE st1

\* A run of the root effect's body, up to its end or to the exception.
ReconcileOrThrow ==
    /\ pc = "render"
    /\ TopIs("effect")
    /\ Top.e = rootEffect
    /\ last.op \in {"effect", "call"}
    /\ Read(ItemsPair)
    /\ nodeCache' = reconcileOrThrow(items).cache
    /\ container' = reconcileOrThrow(items).container
    /\ disposalRegistry' = reconcileOrThrow(items).registry
    /\ log' = reconcileOrThrow(items).log
    /\ made' = reconcileOrThrow(items).made
    /\ life' = reconcileOrThrow(items).life
    /\ pass' = [old |-> SeqSet(cacheKeys(nodeCache)), new |-> SeqSet(items),
                render |-> reconcileOrThrow(items).render,
                cleanup |-> reconcileOrThrow(items).cleanup,
                thrown |-> reconcileOrThrow(items).thrown]
    /\ UNCHANGED <<items, rootEffect>>

\* The exception of renderItem leaves the body of the root effect.
ThrowFromPass ==
    /\ pc = "render"
    /\ last.op = "read"
    /\ pass.thrown
    /\ TopIs("effect")
    /\ LeaveEffect(TRUE)
    /\ ops' = ops

RenderInit ==
    /\ InitCore /\ InitWrap /\ InitLocal /\ InitVirt /\ InitBind /\ InitStore
    /\ rootEffect = NoEffect
    /\ nodeCache = <<>>
    /\ container = <<>>
    /\ disposalRegistry = {}
    /\ log = <<>>
    /\ made = 0
    /\ life = [k \in ListKeys |-> 0]
    /\ pass = [old |-> {}, new |-> {}, render |-> [k \in ListKeys |-> 0],
               cleanup |-> [k \in ListKeys |-> 0], thrown |-> FALSE]
    /\ items \in ItemSeqs
    /\ hasIdle
    /\ pc = "render"

RenderNext ==
    \/ MountList("e1")
           /\ UNCHANGED <<pc, wrapVars, localVars, bindVars, storeVars, virtVars>>
    \/ ReconcileOrThrow
           /\ UNCHANGED <<pc, poolVars, wrapVars, localVars, bindVars, storeVars,
                          virtVars>>
    \/ ~pass.thrown /\ ReturnFromPass /\ UNCHANGED <<pc, poolVars, ext>>
    \/ ThrowFromPass /\ UNCHANGED <<pc, poolVars, ext>>
    \/ \E its \in ItemSeqs :
           SetItems(its)
               /\ UNCHANGED <<pc, poolVars, wrapVars, localVars, bindVars,
                              storeVars, virtVars>>
    \/ RunMicrotask /\ UNCHANGED <<pc, poolVars, ext>>
    \/ CallbackStep /\ UNCHANGED <<pc, poolVars, ext>>

RenderSpec == RenderInit /\ [][RenderNext]_vars

\* ---------------------------------------------------------------- fair execution
\* Any program over effects of normal priority, run by a host that runs
\* every queued microtask once the call stack is empty, with user functions
\* (effect bodies, dataFns) that end.
LiveInit == InitCore /\ InitExt /\ hasIdle /\ pc = "live"

HostStep ==
    \/ RunMicrotask /\ UNCHANGED <<pc, poolVars, ext>>
    \/ CallbackStep /\ UNCHANGED <<pc, poolVars, ext>>
FunctionEnds ==
    \/ Return /\ UNCHANGED <<pc, poolVars, ext>>
    \/ Unwind /\ UNCHANGED <<pc, poolVars, ext>>

LiveNext ==
    \/ \E e \in Effects : Register(e, FALSE) /\ UNCHANGED <<pc, ext>>
    \/ \E p \in Pairs : Read(p) /\ UNCHANGED <<pc, poolVars, ext>>
    \/ \E p \in Pairs, v \in Values : Write(p, v) /\ UNCHANGED <<pc, poolVars, ext>>
    \/ \E e \in Effects : Dispose(e) /\ UNCHANGED <<pc, ext>>
    \/ \E r \in BOOLEAN : BatchBegin(r) /\ UNCHANGED <<pc, poolVars, ext>>
    \/ Throw /\ UNCHANGED <<pc, poolVars, ext>>
    \/ HostStep
    \/ FunctionEnds

LiveSpec ==
    LiveInit /\ [][LiveNext]_vars /\ WF_vars(HostStep) /\ WF_vars(FunctionEnds)

\* ---------------------------------------------------------------- claims
Normal(e) == ~UsesIdle(e)
BatchDepth == Cardinality({i \in 1..Len(stack) : stack[i].t = "batch"})
\* How often e is held by the pending Set, the deferred Set, the idle queue.
Load(e) == <<Count(effectQueue, e), Count(queuedEffects, e), Count(idleQueue, e)>>
RenderTasks(mt) == Cardinality({i \in 1..Len(mt) : mt[i].k = "render"})
\* An exception leaves an effect body / a dataFn in this step.
EffectThrows == (Throw \/ Unwind) /\ TopIs("effect")
BatchThrows == (Throw \/ Unwind) /\ TopIs("batch")
BatchEnds == (Return \/ Throw \/ Unwind) /\ TopIs("batch")

\* C1: once an effect is disposed, no step starts its body again, whatever
\* is written, triggered, batched or flushed afterwards, and also when the
\* effect was pending or deferred at the time of dispose().
C1_DisposedNeverRuns ==
    [][\A e \in Effects : disposed[e] => runs'[e] = runs[e]]_vars

\* A flush has just called the wrapper of a disposed effect that was pending,
\* and the wrapper returned without running the body.
C1_Witness ==
    /\ last.op = "call"
    /\ ~last.chg
    /\ disposed[last.e]
    /\ TopIs("flush")

\* C2: in a round whose writes are made inside one batchUpdates call, no
\* effect body runs while dataFn executes, and when the microtasks have run
\* the body of an effect has run once more if at least one write changed a
\* key it was tracking (however many did) and not at all otherwise.
C2_BatchRunsOnce ==
    \A e \in created :
        /\ pc = "batch" => runs[e] = 1 /\ Len(stack) = 1
        /\ pc = "drainBatch" => runs[e] <= 2
        /\ (pc = "drainBatch" /\ Quiescent) =>
               runs[e] = IF hits[e] >= 1 THEN 2 ELSE 1

\* Two effects subscribed to the same key, three changed writes of it inside
\* the batch, the microtasks run: each body has run once more.
C2_Witness ==
    /\ pc = "drainBatch"
    /\ Quiescent
    /\ created = Effects
    /\ \A e \in Effects : hits[e] = 3 /\ runs[e] = 2

\* C3: in a round whose writes are made outside any batch, an effect is held
\* by the pending Set once when a write changed a key it was tracking
\* (however many did) and not otherwise, no body runs before the flush, and
\* after the flush the body has run once more exactly when it was pending.
C3_PendingOnceRunsOnce ==
    \A e \in created :
        /\ pc = "plain" =>
               /\ runs[e] = 1
               /\ Count(effectQueue, e) = IF hits[e] >= 1 THEN 1 ELSE 0
        /\ pc = "drainPlain" => runs[e] <= 2
        /\ (pc = "drainPlain" /\ Quiescent) =>
               runs[e] = IF hits[e] >= 1 THEN 2 ELSE 1

\* An effect reading a key, two changed writes of the key at top level, the
\* flush: the body has run twice in all.
C3_Witness ==
    /\ pc = "drainPlain"
    /\ Quiescent
    /\ hits["e1"] = 2
    /\ runs["e1"] = 2

\* {count: 0}, an effect reading count, count = 1, the flush: two runs.
C3_ScenarioA ==
    /\ pc = "drainPlain"
    /\ Quiescent
    /\ created = {"e1"}
    /\ deps["e1"] = {<<"t1", "a">>}
    /\ val[<<"t1", "a">>] = 1
    /\ hits["e1"] = 1
    /\ runs["e1"] = 2

\* C4: a write that stores the value the property already has performs the
\* write and calls no trigger: the pending Set, the deferred Set, the idle
\* and microtask queues, the run counts and the stack are as before.
C4_NoOpWriteSilent ==
    [][\A p \in Pairs :
          Write(p, val[p]) =>
              /\ val'[p] = val[p]
              /\ UNCHANGED <<effectQueue, queuedEffects, idleQueue,
                             microtasks, runs, stack, depMap, deps>>]_vars

\* A same-value write to a key an effect is subscribed to has just been made.
C4_Witness ==
    /\ last.op = "write"
    /\ ~last.chg
    /\ depMap[last.p] # <<>>
    /\ effectQueue = <<>>
    /\ queuedEffects = <<>>

\* C5: a write to key p of a plain object hands effect e to the scheduler
\* (or to the deferred Set) exactly when it changed the value and e is
\* tracking p; for every other effect nothing changes in any queue.
C5_ExactKeyScheduling ==
    [][\A p \in Pairs, v \in Values :
          Write(p, v) =>
              \A e \in Effects :
                  IF val[p] # v /\ p \in deps[e]
                  THEN IF batched THEN Count(queuedEffects', e) = 1
                       ELSE IF UsesIdle(e)
                            THEN Count(idleQueue', e) = Count(idleQueue, e) + 1
                            ELSE Count(effectQueue', e) = 1
                  ELSE Load(e)' = Load(e)]_vars

\* A changed write has just scheduled the effect tracking the written key
\* and left alone an effect that tracks only other keys.
C5_Witness ==
    \E e, f \in Effects :
        /\ last.op = "write"
        /\ last.chg
        /\ last.p \in deps[e]
        /\ deps[f] # {}
        /\ last.p \notin deps[f]
        /\ Contains(effectQueue, e)
        /\ Load(f) = <<0, 0, 0>>

\* C6: a flush runs a snapshot of the pending Set: what it has still to call
\* holds no effect twice and none it has already called; a flush is the
\* outermost call and calls wrappers itself only (no wrapper is called from
\* inside user code except by effect()); and whatever is pending while or
\* after a flush has a flush microtask still to come.
C6_FlushSnapshot ==
    /\ \A i \in 1..Len(stack) :
          /\ stack[i].t \in {"flush", "idle"} =>
                /\ i = 1
                /\ NoDup(stack[i].rest)
                /\ SeqSet(stack[i].rest) \cap stack[i].done = {}
          /\ (stack[i].t = "effect" /\ stack[i].via # "register") =>
                /\ i = 2
                /\ stack[1].t = stack[i].via
                /\ stack[i].e \in stack[1].done
    /\ effectQueue # <<>> => \E i \in 1..Len(microtasks) : microtasks[i].k = "flush"

\* Inside a flush, the body of an effect has just written a key the effect
\* itself reads: the effect is pending again and its body is still the one
\* call of it in this flush.
C6_Witness ==
    /\ Len(stack) = 2
    /\ stack[1].t = "flush"
    /\ last.op = "write"
    /\ last.chg
    /\ last.p \in deps[Top.e]
    /\ Contains(effectQueue, Top.e)
    /\ Top.e \in stack[1].done

\* C7: an exception leaving an effect body is given to globalErrorHandler
\* once and goes no further, the callback that called the wrapper keeps the
\* wrappers it has still to call, and the subscriptions the body collected
\* stay.
C7_EffectErrorContained ==
    [][EffectThrows =>
          /\ errors' = errors + 1
          /\ exc' = FALSE
          /\ escaped' = escaped
          /\ stack' = Pop
          /\ activeEffect' = NoEffect
          /\ depMap' = depMap
          /\ deps' = deps]_vars

\* In a flush, an effect body that had subscribed again has just thrown: the
\* handler was called once and the flush goes on.
C7_Witness ==
    /\ last.op = "caught"
    /\ last.e \in Effects
    /\ deps[last.e] # {}
    /\ depMap[<<"t1", "a">>] = <<last.e>>
    /\ TopIs("flush")
    /\ errors = 1
    /\ escaped = 0
    /\ ~exc

\* C8 as claimed: while a dataFn is executing, the batching flag is set,
\* whatever batches were called and have ended inside it.
C8_NestedBatchKeepsFlag == BatchDepth > 0 => batched

\* C9: when an exception leaves a dataFn the flag is cleared, the deferred
\* Set is emptied, every deferred effect is handed to the scheduler (held
\* once by the pending Set, or given one more idle callback), no other
\* effect is, and the exception goes on to the caller; and in no state is
\* the flag set or an effect deferred with no dataFn executing.
C9_BatchThrowFlushes ==
    /\ [](BatchDepth = 0 => (~batched /\ queuedEffects = <<>>))
    /\ [][BatchThrows =>
            /\ batched' = FALSE
            /\ queuedEffects' = <<>>
            /\ exc' = TRUE
            /\ stack' = Pop
            /\ \A e \in Effects :
                  IF Contains(queuedEffects, e)
                  THEN IF UsesIdle(e)
                       THEN Count(idleQueue', e) = Count(idleQueue, e) + 1
                       ELSE Count(effectQueue', e) = 1
                  ELSE Load(e)' = Load(e)]_vars

\* A dataFn has just thrown with an effect deferred: the effect is pending
\* and the exception is on its way to the caller.
C9_Witness ==
    /\ last.op = "batchEnd"
    /\ last.chg
    /\ last.es # {}
    /\ exc
    /\ \A e \in last.es : Contains(effectQueue, e)
    /\ queuedEffects = <<>>
    /\ ~batched

Subs(e) == {p \in Pairs : Contains(depMap[p], e)}
\* The body of e is executing: its wrapper's call of fn() has not ended.
Running(e) == \E i \in 1..Len(stack) : stack[i].t = "effect" /\ stack[i].e = e
\* ... in the run that effect() makes (first) / that a callback makes (again).
FirstRun(e) ==
    \E i \in 1..Len(stack) :
        stack[i].t = "effect" /\ stack[i].e = e /\ stack[i].via = "register"
ReRun(e) == Running(e) /\ ~FirstRun(e)
\* The effect whose fn made the call of this step: the innermost body.
Owner ==
    LET fs == {i \in 1..Len(stack) : stack[i].t = "effect"}
    IN  IF fs = {} THEN NoEffect
        ELSE stack[CHOOSE i \in fs : \A j \in fs : j <= i].e
\* e is held by a queue or by a callback that has still to call it.
Pending(e) ==
    \/ Contains(effectQueue, e)
    \/ Contains(queuedEffects, e)
    \/ Contains(idleQueue, e)
    \/ \E i \in 1..Len(stack) : Contains(stack[i].rest, e)
\* This step is a read of p that track records for e.
TrackedRead(e, p) == Read(p) /\ activeEffect = e

\* C11 as claimed: every key the fn of an effect reads during the run that
\* effect() makes is one the effect is subscribed to.
C11_FirstRunSubscribesAllReads ==
    [][\A p \in Pairs :
          (Read(p) /\ Owner # NoEffect /\ FirstRun(Owner)) =>
              Contains(depMap'[p], Owner)]_vars

\* C11 amended: effect() starts the body at once, with no subscription, and
\* the body runs once before effect() returns; during that run the effect
\* gains exactly the keys read while it is the activeEffect, and loses none;
\* and a changed write of such a key made before any other run schedules it.
C11_FirstRunCollectsTrackedReads ==
    /\ [][\A e \in Effects, i \in BOOLEAN :
             Register(e, i) =>
                 /\ runs[e] = 0 /\ runs'[e] = 1
                 /\ Subs(e)' = {}
                 /\ activeEffect' = e
                 /\ stack' = Append(stack, EffectFrame(e, "register"))]_vars
    /\ [](\A e \in Effects : FirstRun(e) => runs[e] = 1)
    /\ [][\A e \in Effects :
             FirstRun(e) =>
                 IF \E p \in Pairs : TrackedRead(e, p)
                 THEN Subs(e)' = Subs(e) \cup {last'.p}
                 ELSE Subs(e)' = Subs(e)]_vars
    /\ [][\A e \in Effects, p \in Pairs, v \in Values :
             (Write(p, v) /\ val[p] # v /\ p \in Subs(e) /\ runs[e] = 1
                 /\ ~batched) =>
                 IF UsesIdle(e)
                 THEN Count(idleQueue', e) = Count(idleQueue, e) + 1
                 ELSE Count(effectQueue', e) = 1]_vars

\* effect() has returned an effect that read two keys, no microtask has run,
\* and a changed write of one of the keys has just made it pending.
C11_Witness ==
    /\ last.op = "write"
    /\ last.chg
    /\ stack = <<>>
    /\ runs["e1"] = 1
    /\ Cardinality(Subs("e1")) = 2
    /\ last.p \in Subs("e1")
    /\ effectQueue = <<"e1">>

C13_DisposedUnsubscribed ==
    \A e \in Effects :
        (disposed[e] /\ ~Running(e) /\ ~Pending(e)) => Subs(e) = {}

\* C14: dispose() on a disposed wrapper raises nothing and changes neither
\* the dep Sets, the wrapper's deps and flag, the pending and deferred Sets,
\* the idle and microtask queues nor the wrapper pool.
C14_DisposeIdempotent ==
    [][\A e \in Effects :
          (Dispose(e) /\ disposed[e]) =>
              /\ UNCHANGED <<depMap, deps, disposed, effectQueue,
                             queuedEffects, idleQueue, microtasks,
                             wrapperPool, fnOf, stack, activeEffect>>
              /\ ~exc']_vars

\* dispose() has just been called again on a wrapper that its first
\* dispose() stored a pool array for and that is in a dep Set.
C14_Witness ==
    /\ last.op = "dispose"
    /\ ~last.chg
    /\ disposed[last.e]
    /\ wrapperPool[fnOf[last.e]].has
    /\ Subs(last.e) # {}

\* C15 as claimed: a disposed wrapper stays disposed, its body is not run
\* again and it enters no dep Set again, and effect() given the fn of a
\* disposed wrapper makes another wrapper, live and run once.
C15_DisposedStaysDead ==
    /\ [][\A e \in Effects :
             disposed[e] =>
                 /\ disposed'[e]
                 /\ runs'[e] = runs[e]
                 /\ Subs(e)' \subseteq Subs(e)]_vars
    /\ [][\A e, g \in Effects, f \in Fns :
             (effect(g, f, FALSE) /\ disposed[e] /\ fnOf[e] = f) =>
                 /\ g # e
                 /\ ~disposed'[g]
                 /\ runs'[g] = 1
                 /\ fnOf'[g] = f
                 /\ activeEffect' = g]_vars

\* ---------------------------------------------------------------- claims: array
SubsOf(p) == SeqSet(depMap[p])
\* This step hands e to the scheduler (or to the deferred Set) / leaves every
\* queue as it was for e.
Scheduled(e) ==
    IF batched THEN Count(queuedEffects', e) = 1
    ELSE IF UsesIdle(e) THEN Count(idleQueue', e) > Count(idleQueue, e)
    ELSE Count(effectQueue', e) = 1
Untouched(e) == Load(e)' = Load(e)

\* C16 as claimed: appending an element to the array schedules every effect
\* subscribed to length and every effect subscribed to '[]', and leaves
\* alone an effect subscribed only to indices other than the appended one.
C16_AppendTriggersLengthAndMarker ==
    [][\A v \in Values :
          Push(v) =>
              \A e \in Effects :
                  /\ e \in SubsOf(LengthOf("arr")) \cup SubsOf(<<"arr", "[]">>)
                         => Scheduled(e)
                  /\ (\A q \in deps[e] :
                          q[1] = "arr" /\ isNumericKey(q[2]) /\ q # last'.p)
                         => Untouched(e)]_vars

\* C17: a changed write to an index of the array schedules the subscribers
\* of that index and those of length, inside the range and past its end; a
\* changed write to length or to a key that is no number schedules the
\* subscribers of that key; every other effect is left alone.
C17_IndexWriteTriggersIndexAndLength ==
    [][\A p \in ArrPairs :
          \A v \in ArrValues(p) :
              (Write(p, v) /\ val[p] # v) =>
                  \A e \in Effects :
                      IF \/ e \in SubsOf(p)
                         \/ isNumericKey(p[2]) /\ e \in SubsOf(LengthOf(p[1]))
                      THEN Scheduled(e)
                      ELSE Untouched(e)]_vars

\* A changed write to index 0, inside the range, has just scheduled an
\* effect subscribed to length only and left alone one subscribed to index 1.
C17_Witness ==
    \E e, f \in Effects :
        /\ last.op = "write"
        /\ last.chg
        /\ last.p = <<"arr", "0">>
        /\ val[LengthOf("arr")] = 1
        /\ deps[e] = {LengthOf("arr")}
        /\ deps[f] = {<<"arr", "1">>}
        /\ Contains(effectQueue, e)
        /\ Load(f) = <<0, 0, 0>>

\* ---------------------------------------------------------------- claims: wrappers
ProxyOf(o) == {i \in 1..Len(proxies) : proxies[i].target = o}

\* C18: no object has two proxies, the proxy cached for an object (in
\* proxyCache, and in the childCache of any handler) is the proxy made for
\* it; createState returns the cached proxy of an object whatever the mode,
\* the one it had when it had one, and returns every other value as it is;
\* and a deep read of a field holding an object returns that same proxy.
C18_WrapperIdentityStable ==
    /\ [](\A o \in Objs :
             /\ Cardinality(ProxyOf(o)) <= 1
             /\ proxyCache[o] # NoProxy =>
                    ProxyOf(o) = {i \in 1..Len(proxies) : PNames[i] = proxyCache[o]}
             /\ \A h \in CacheKeys :
                    childCache[h][o] # NoProxy => childCache[h][o] = proxyCache[o])
    /\ [][\A v \in Objs \cup Prims, m \in Modes :
             Wrap(v, m) =>
                 /\ ret' = IF IsObject(v) THEN proxyCache'[v] ELSE v
                 /\ (IsObject(v) /\ proxyCache[v] # NoProxy) =>
                        ret' = proxyCache[v] /\ proxies' = proxies]_vars
    /\ [][\A i \in 1..Len(proxies) :
             \A k \in Props(proxies[i].target) :
                 (Get(i, k) /\ proxies[i].handler[1] = "deep"
                     /\ IsObject(Field(proxies[i].target, k))) =>
                     /\ ret' = proxyCache'[Field(proxies[i].target, k)]
                     /\ proxyCache[Field(proxies[i].target, k)] # NoProxy =>
                            ret' = proxyCache[Field(proxies[i].target, k)]]_vars

\* o2 was wrapped in shallow mode, and deep reads of o1.child and of a1[0]
\* have returned that wrapper: three objects, three proxies.
C18_Witness ==
    /\ Len(proxies) = 3
    /\ ret = proxyCache["o2"]
    /\ \E i \in ProxyOf("o2") : proxies[i].handler[1] = "shallow"
    /\ childCache[<<"deep", "child|list|n">>]["o2"] = proxyCache["o2"]
    /\ childCache[<<"deep", "Array">>]["o2"] = proxyCache["o2"]

\* ---------------------------------------------------------------- claims: list
Cached == SeqSet(cacheKeys(nodeCache))
\* A list is mounted, not unmounted, and its root effect has run for the
\* last assignment.
PassComplete ==
    /\ rootEffect # NoEffect
    /\ ~disposed[rootEffect]
    /\ ~Running(rootEffect)
    /\ ~Pending(rootEffect)

\* C19: when a reconciliation has completed the cached ids are those of the
\* items and the container's children are the cached nodes, in the cache's
\* order; at all times no id is cached twice, no node is cached for two ids,
\* renderItem was called once for each cached id since it was cached; and no
\* step gives an id that stays cached another node.
C19_CacheMatchesItems ==
    /\ [](/\ PassComplete =>
               /\ Cached = SeqSet(items)
               /\ container = cacheNodes(nodeCache)
          /\ NoDup(cacheKeys(nodeCache))
          /\ NoDup(cacheNodes(nodeCache))
          /\ \A k \in ListKeys : life[k] = IF k \in Cached THEN 1 ELSE 0)
    /\ [][\A i \in 1..Len(nodeCache) : \A j \in 1..Len(nodeCache') :
             nodeCache[i].id = nodeCache'[j].id =>
                 nodeCache[i].node = nodeCache'[j].node]_vars

\* Items [1, 2], then [2], then [2, 1] were reconciled: id 1 is cached for
\* the second time, with the third node made.
C19_Witness ==
    /\ PassComplete
    /\ items = <<"2", "1">>
    /\ nodeCache = <<[id |-> "2", node |-> 2], [id |-> "1", node |-> 3]>>
    /\ container = <<2, 3>>
    /\ made = 3

\* C20: a run of the root effect's body with the ids Old cached and the ids
\* New in the items calls renderItem once for each id of New \ Old and for
\* no other id, and calls the registered disposal function once for each id
\* of Old \ New whose node has one and for no other id.
C20_PassCallsByKeyDifference ==
    [][Reconcile =>
          LET Old == Cached
              New == SeqSet(items)
          IN  /\ pass'.old = Old /\ pass'.new = New
              /\ made' = made + Cardinality(New \ Old)
              /\ \A k \in ListKeys :
                    /\ pass'.render[k] = IF k \in New \ Old THEN 1 ELSE 0
                    /\ pass'.cleanup[k] =
                           IF /\ k \in Old \ New
                              /\ registryGet(disposalRegistry,
                                     nodeCache[cacheGet(nodeCache, k)].node)
                                     # NoFn
                           THEN 1 ELSE 0]_vars

\* Items [1, 2] were reconciled from an empty cache with two renderItem
\* calls, then [2]: one disposal call, for id 1, no renderItem call, and
\* the node made for id 2 is still the cached one.
C20_Witness ==
    /\ PassComplete
    /\ items = <<"2">>
    /\ pass.old = {"1", "2"} /\ pass.new = {"2"}
    /\ pass.cleanup = [k \in ListKeys |-> IF k = "1" THEN 1 ELSE 0]
    /\ pass.render = [k \in ListKeys |-> 0]
    /\ made = 2
    /\ nodeCache = <<[id |-> "2", node |-> 2]>>
    /\ disposalRegistry = {<<2, "f2">>}

\* ---------------------------------------------------------------- claims: list life
\* The positions of the log where ev was called for node n.
CallsOf(ev, n) == {i \in 1..Len(log) : log[i].ev = ev /\ log[i].node = n}
\* The nodes renderItem registered a disposal function for.
Registered ==
    {n \in 1..made :
        \E i \in CallsOf("render", n) : log[i].arg \in CleanupKeys}
Unmounted == rootEffect # NoEffect /\ disposed[rootEffect]

ListState == <<nodeCache, container, disposalRegistry, log, made, pass>>

\* C22: once the unmount function has returned the root effect is disposed,
\* the cache, the container and the registry are empty; the first call of
\* the unmount function calls the disposal function of every cached node
\* that has one; and from then on no step (an assignment of the items, the
\* flush of a re-run that was pending, another call of the unmount function)
\* runs the root effect's body or calls renderItem, a disposal function or
\* the container.
C22_UnmountIsFinal ==
    /\ [](Unmounted =>
             /\ nodeCache = <<>>
             /\ container = <<>>
             /\ disposalRegistry = {}
             /\ ~Running(rootEffect))
    /\ [][(Unmount /\ ~disposed[rootEffect]) =>
             \A i \in 1..Len(nodeCache) :
                 registryGet(disposalRegistry, nodeCache[i].node) # NoFn =>
                     \E j \in Len(log) + 1..Len(log') :
                         log'[j] = Call("cleanup", nodeCache[i].node,
                                        registryGet(disposalRegistry,
                                                    nodeCache[i].node))]_vars
    /\ [][Unmounted =>
             /\ ListState' = ListState
             /\ runs'[rootEffect] = runs[rootEffect]
             /\ disposed'[rootEffect]]_vars

\* Items [..] were assigned while a list with a cached node was mounted,
\* the unmount function was called before the flush, and the flush has
\* called the root effect, which did not run.
C22_Witness ==
    /\ Unmounted
    /\ made >= 1
    /\ items # <<>>
    /\ last.op = "call" /\ last.e = rootEffect /\ ~last.chg
    /\ \A n \in 1..made : CallsOf("remove", n) # {}

\* ---------------------------------------------------------------- claims: list order
\* The position of node n among the children c (0 when it is not one).
Pos(c, n) == IF n \in SeqSet(c) THEN CHOOSE i \in 1..Len(c) : c[i] = n ELSE 0
\* The positions of the items whose id is not cached, first occurrences.
NewAt ==
    {i \in 1..Len(items) :
        items[i] \notin Cached /\ \A j \in 1..(i - 1) : items[j] # items[i]}
NodeOf(c, id) == c[cacheGet(c, id)].node

\* C23: a run of the root effect's body keeps the node of every id that
\* stays cached, keeps those nodes in the container in the order they had,
\* and puts the new nodes behind all of them in the order of their items.
C23_PersistingKeptNewAppended ==
    [][Reconcile =>
          LET Kept == Cached \cap SeqSet(items)
          IN  /\ \A k \in Kept :
                    /\ NodeOf(nodeCache', k) = NodeOf(nodeCache, k)
                    /\ Pos(container', NodeOf(nodeCache, k)) > 0
              /\ \A k, l \in Kept :
                    Pos(container, NodeOf(nodeCache, k))
                        < Pos(container, NodeOf(nodeCache, l))
                    => Pos(container', NodeOf(nodeCache, k))
                           < Pos(container', NodeOf(nodeCache, l))
              /\ \A k \in Kept : \A i \in NewAt :
                    Pos(container', NodeOf(nodeCache, k))
                        < Pos(container', NodeOf(nodeCache', items[i]))
              /\ \A i, j \in NewAt :
                    i < j => /\ Pos(container', NodeOf(nodeCache', items[i])) > 0
                             /\ Pos(container', NodeOf(nodeCache', items[i]))
                                    < Pos(container', NodeOf(nodeCache', items[j]))
              /\ Len(container') = Cardinality(Kept) + Cardinality(NewAt)]_vars

\* Items [1, 2] were mounted into the empty container and then [2, 1] was
\* assigned and reconciled: the node of 1 still precedes the node of 2.
C23_Witness ==
    /\ PassComplete
    /\ items = <<"2", "1">>
    /\ pass.old = {"1", "2"} /\ pass.new = {"1", "2"}
    /\ nodeCache = <<[id |-> "1", node |-> 1], [id |-> "2", node |-> 2]>>
    /\ container = <<1, 2>>
    /\ made = 2

\* ---------------------------------------------------------------- claims: duplicate ids
\* The ids that occur more than once in the items.
Repeated ==
    {k \in ListKeys :
        \E i, j \in 1..Len(items) : i # j /\ items[i] = k /\ items[j] = k}

\* C24 as claimed: a run of the root effect's body over items that repeat an
\* id that is not cached calls renderItem for both occurrences and leaves a
\* node in the container that the cache does not hold.
C24_DuplicateOverwritesEntry ==
    [][Reconcile =>
          \A k \in Repeated \ Cached :
              /\ pass'.render[k] = 2
              /\ \E n \in SeqSet(container') :
                     n \notin SeqSet(cacheNodes(nodeCache'))]_vars

\* C24 as the code has it: renderItem is called for the first occurrence of
\* a repeated id only (for none when the id is cached), so the cache holds
\* the node of the first occurrence, every child of the container is a
\* cached node, and every registered disposal function belongs to one.
C24_DuplicateRenderedOnce ==
    [][Reconcile =>
          /\ \A k \in Repeated :
                /\ pass'.render[k] = IF k \in Cached THEN 0 ELSE 1
                /\ Cardinality({i \in 1..Len(nodeCache') : nodeCache'[i].id = k}) = 1
                /\ Cardinality({i \in Len(log) + 1..Len(log') :
                                   log'[i].ev = "render" /\ log'[i].arg = k})
                       = pass'.render[k]
          /\ container' = cacheNodes(nodeCache')
          /\ \A p \in disposalRegistry' :
                p[1] \in SeqSet(cacheNodes(nodeCache'))]_vars

\* Items [1, 1] were reconciled from an empty cache: one node was made, and
\* it is the cached node of id 1 and the container's only child.
C24_Witness ==
    /\ PassComplete
    /\ items = <<"1", "1">>
    /\ pass.old = {} /\ pass.render["1"] = 1
    /\ made = 1
    /\ nodeCache = <<[id |-> "1", node |-> 1]>>
    /\ container = <<1>>
    /\ disposalRegistry = {<<1, "f1">>}

ModeOf(ps, w) == ps[CHOOSE i \in 1..Len(ps) : PNames[i] = w].handler[1]

Evicted(w) == \A k \in LocalKeys : localStateMap[k] # w
\* The reactive engine's subscriptions, queues and flags.
Graph == <<depMap, deps, effectQueue, queuedEffects, idleQueue, microtasks,
           disposed, created, activeEffect, batched, val>>

\* C27: disposeLocalState(key) makes key absent and changes nothing else:
\* not the other keys, not the subscriptions, the queues or the disposed
\* flags, not the wrappers, and raises nothing (also when key is absent,
\* when it changes nothing at all); a changed write through a proxy that
\* is stored under no key any more still schedules every effect subscribed
\* to the written property; and createLocalState on the key stores again.
C27_EvictOnlyRemovesSlot ==
    /\ [][\A key \in LocalKeys :
             DisposeLocalState(key) =>
                 /\ localStateMap'[key] = Absent
                 /\ \A k \in LocalKeys \ {key} :
                        localStateMap'[k] = localStateMap[k]
                 /\ Graph' = Graph
                 /\ wrapVars' = wrapVars
                 /\ runs' = runs
                 /\ ~exc'
                 /\ localStateMap[key] = Absent =>
                        localStateMap' = localStateMap]_vars
    /\ [][\A i \in 1..Len(proxies) : \A k \in LocalProps : \A v \in Values :
             (WriteProxy(i, k, v) /\ Evicted(PNames[i]) /\ val[PairOf(i, k)] # v) =>
                 \A e \in Effects :
                     Contains(depMap[PairOf(i, k)], e) => Scheduled(e)]_vars
    /\ [][\A key \in LocalKeys, init \in LocalInits :
             (CreateLocalState(key, init) /\ localStateMap[key] = Absent) =>
                 localStateMap'[key] = createState(init, "shallow").ret]_vars

\* An effect read a local state, its key was disposed, and a write through
\* the proxy the program still held has scheduled the effect.
C27_Witness ==
    /\ pc = "local"
    /\ \A k \in LocalKeys : localStateMap[k] = Absent
    /\ Len(proxies) = 1 /\ proxies[1].handler[1] = "shallow"
    /\ last.op = "write" /\ last.chg
    /\ effectQueue = <<"e1">>
    /\ ~disposed["e1"]
    /\ last.p \in deps["e1"]

\* ---------------------------------------------------------------- claims: window
\* floor(a / b) = q and ceil(a / b) = c, said without division.
IsFloor(q, a, b) == q * b <= a /\ a < (q + 1) * b
IsCeil(c, a, b) == (c - 1) * b < a /\ a <= c * b
\* The window of the last pass is the one the claim gives for the view.
WindowAsClaimed ==
    \E q, c \in 0..(view.scrollTop + view.clientHeight) :
        /\ IsFloor(q, view.scrollTop, view.itemHeight)
        /\ IsCeil(c, view.scrollTop + view.clientHeight, view.itemHeight)
        /\ view.startIdx = Max(0, q - view.buffer)
        /\ view.endIdx = Min(Len(items), c + view.buffer)
\* The cache holds the items of the window, each with its index.
CacheIsWindow ==
    /\ Cached = {items[i + 1] : i \in view.startIdx..(view.endIdx - 1)}
    /\ NoDup(cacheKeys(nodeCache))
    /\ \A j \in 1..Len(nodeCache) :
           /\ nodeCache[j].index \in view.startIdx..(view.endIdx - 1)
           /\ items[nodeCache[j].index + 1] = nodeCache[j].id
WindowDone == pc = "virtual" /\ PassComplete

NewCleanups(n) ==
    {i \in (Len(log) + 1)..Len(log') :
        log'[i].ev = "cleanup" /\ log'[i].node = n}

\* C29 as claimed: a run of the windowed list's effect body calls the
\* disposal function of every cached node whose item left the window once,
\* takes the node out of the container and deletes its record; it keeps
\* the node of every item that stays in the window, gives it its index and
\* does not call renderItem for it.
C29_WindowRemovalDisposes ==
    [][ReconcileWindow =>
          \A j \in 1..Len(nodeCache) :
              LET c == nodeCache[j]
              IN  IF c.id \in pass'.new
                  THEN /\ cacheHas(nodeCache', c.id)
                       /\ NodeAt(nodeCache', c.id) = c.node
                       /\ c.node \in SeqSet(container')
                       /\ pass'.render[c.id] = 0
                  ELSE /\ ~cacheHas(nodeCache', c.id)
                       /\ c.node \notin SeqSet(container')
                       /\ registryGet(disposalRegistry, c.node) # NoFn =>
                              Cardinality(NewCleanups(c.node)) = 1]_vars

\* ---------------------------------------------------------------- claims: scroll
\* C30: a scroll of a mounted windowed list starts a run of the root effect's
\* body in the same step, although nothing was written and nothing is
\* queued for it; that run computes the window from the new scroll position;
\* when a run has returned the root effect is subscribed to the items; and
\* once the list is unmounted a scroll starts no run and changes neither
\* cache, container, registry nor the calls made.
C30_ScrollRunsPass ==
    /\ [][\A top \in ScrollTops :
             (Scroll(top) /\ ~disposed[rootEffect]) =>
                 /\ runs'[rootEffect] = runs[rootEffect] + 1
                 /\ Running(rootEffect)'
                 /\ activeEffect' = rootEffect
                 /\ val' = val]_vars
    /\ [][(ReconcileWindow /\ last.op = "scroll") =>
             /\ view'.startIdx = startIdxOf(view)
             /\ view'.scrollTop = view.scrollTop]_vars
    /\ [](WindowDone =>
             /\ Contains(depMap[ItemsPair], rootEffect)
             /\ view.startIdx = startIdxOf(view)
             /\ view.endIdx = endIdxOf(view, Len(items)))
    /\ [][\A top \in ScrollTops :
             (Scroll(top) /\ disposed[rootEffect]) =>
                 /\ ListState' = ListState
                 /\ runs' = runs
                 /\ stack' = stack]_vars

\* A list over [1, 2] was mounted and scrolled to 2 with nothing written:
\* the pass of the scroll has dropped item 1, rendered item 2 and returned,
\* and the root effect is still subscribed to the items.
C30_Witness ==
    /\ WindowDone
    /\ last.op = "return"
    /\ ops = 4
    /\ runs[rootEffect] = 2
    /\ items = <<"1", "2">>
    /\ view.scrollTop = 2 /\ view.clientHeight = 1 /\ view.buffer = 0
    /\ nodeCache = <<[id |-> "2", node |-> 2, index |-> 1]>>
    /\ microtasks = <<>>
    /\ Contains(depMap[ItemsPair], rootEffect)

\* ---------------------------------------------------------------- claims: idle priority
\* The idle callbacks that wait for e or are being run for it.
IdleCallbacks(e) ==
    Count(idleQueue, e)
        + Cardinality({i \in 1..Len(stack) :
                          stack[i].t = "idle" /\ Contains(stack[i].rest, e)})

\* C31: where the host has requestIdleCallback, an idle effect is never held
\* by the pending Set and its wrapper is never called by a flush; a changed
\* write of a key it tracks made while the batching flag is clear gives it
\* one more idle callback, whatever callbacks wait for it already, and made
\* while the flag is set gives it none; the end of a batch gives one idle
\* callback to each idle effect the batch deferred, however many writes
\* deferred it; and each idle callback calls the wrapper once, which runs the
\* body once unless the effect is disposed.
C31_IdleEffectsNotCoalesced ==
    /\ [](\A e \in Effects :
             UsesIdle(e) =>
                 /\ ~Contains(effectQueue, e)
                 /\ \A i \in 1..Len(stack) :
                        /\ stack[i].t = "flush" =>
                               e \notin SeqSet(stack[i].rest) \cup stack[i].done
                        /\ stack[i].t = "effect" /\ stack[i].e = e =>
                               stack[i].via \in {"register", "idle"}
                 /\ runs[e] + IdleCallbacks(e) <= 1 + hits[e])
    /\ [][\A p \in Pairs, v \in Values :
            Write(p, v) =>
                \A e \in Effects :
                    UsesIdle(e) =>
                        Count(idleQueue', e) =
                            Count(idleQueue, e)
                                + (IF val[p] # v /\ p \in deps[e] /\ ~batched
                                   THEN 1 ELSE 0)]_vars
    /\ [][BatchEnds =>
            \A e \in Effects :
                UsesIdle(e) =>
                    Count(idleQueue', e) =
                        Count(idleQueue, e)
                            + (IF Contains(queuedEffects, e) THEN 1 ELSE 0)]_vars
    /\ [][RunIdle =>
            /\ Len(stack'[1].rest) = 1
            /\ microtasks' = microtasks
            /\ effectQueue' = effectQueue]_vars
    /\ [][(CallbackStep /\ Top.t = "idle" /\ Top.rest # <<>>) =>
            \A e \in Effects :
                runs'[e] = runs[e]
                    + (IF e = Head(Top.rest) /\ ~disposed[e] THEN 1 ELSE 0)]_vars

\* An idle effect reading a key, two changed writes of the key at top level
\* with no idle callback run in between, then the two idle callbacks: the
\* body has run three times in all and no microtask waits.
C31_Witness ==
    \E e \in Effects :
        /\ UsesIdle(e)
        /\ hits[e] = 2
        /\ runs[e] = 3
        /\ idleQueue = <<>>
        /\ stack = <<>>
        /\ microtasks = <<>>
        /\ last.op = "callbackEnd"

\* ---------------------------------------------------------------- claims: binding
\* What a failed call may not touch: the engine, the list, the registry.
BindState == <<val, depMap, created, deps, disposed, activeEffect, effectQueue,
               queuedEffects, microtasks, idleQueue, stack, runs, errors,
               listVars, virtVars>>

\* C32: registerListRenderer throws exactly when its first argument is not
\* an array or cfg.key or cfg.render is not a function, and then leaves the
\* renderer registry and everything else as it was, and otherwise stores a
\* configuration for the array and throws nothing; bindList throws exactly
\* when the registry has no configuration for the array getItems() returned,
\* and then no effect is created, no body runs and the cache, the container
\* and the registry are as before, and otherwise registers the root effect;
\* and the exception of either call reaches the caller, which is the host
\* here: globalErrorHandler is not called for it.
C32_ContractViolationsThrowCleanly ==
    /\ [][\A a \in BindArgs, keyFn, renderFn \in BOOLEAN :
            RegisterListRenderer(a, keyFn, renderFn) =>
                IF a \notin Arrays \/ ~keyFn \/ ~renderFn
                THEN /\ exc'
                     /\ rendererRegistry' = rendererRegistry
                     /\ BindState' = BindState
                ELSE /\ ~exc'
                     /\ rendererRegistry' = rendererRegistry \cup {a}
                     /\ BindState' = BindState]_vars
    /\ [][\A a \in BindArgs, virtual \in VirtualOpts \cup {NoView} :
            BindList(a, virtual) =>
                IF a \notin rendererRegistry
                THEN /\ exc'
                     /\ rendererRegistry' = rendererRegistry
                     /\ BindState' = BindState
                ELSE /\ ~exc'
                     /\ created' = created \cup {"e1"}
                     /\ rootEffect' = "e1"
                     /\ runs' = [runs EXCEPT !["e1"] = 1]
                     /\ rendererRegistry' = rendererRegistry]_vars
    /\ [][(pc = "bind" /\ exc) =>
            /\ stack = <<>>
            /\ ~exc'
            /\ escaped' = escaped + 1
            /\ errors' = errors
            /\ rendererRegistry' = rendererRegistry
            /\ BindState' = BindState]_vars

\* A renderer was registered for one array, a registration without a render
\* function has thrown, and bindList has just thrown for the other array:
\* one entry in the registry, no effect, an empty container.
C32_Witness ==
    /\ pc = "bind"
    /\ last.op = "bindList"
    /\ exc
    /\ escaped = 1
    /\ Cardinality(rendererRegistry) = 1
    /\ last.p \in Arrays \ rendererRegistry
    /\ created = {}
    /\ rootEffect = NoEffect
    /\ container = <<>>

\* ---------------------------------------------------------------- claims: store
\* e is subscribed to a key of the array itself.
TracksArray(e) == deps[e] \cap ArrPairs # {}

NoBodyRunning == \A e \in Effects : ~Running(e)

\* C34: whenever no effect body is executing the active-effect slot is
\* empty; every step in which control leaves an effect body, by return or
\* by exception, leaves the slot empty; and a read made through a wrapper
\* while no effect body is executing (at top level, or in a dataFn called
\* from there) adds no subscription.
C34_SlotReleasedOnEveryExit ==
    /\ [](NoBodyRunning => activeEffect = NoEffect)
    /\ [][((Return \/ Throw \/ Unwind) /\ TopIs("effect")) =>
            activeEffect' = NoEffect]_vars
    /\ [][\A p \in Pairs :
            (Read(p) /\ NoBodyRunning) => (depMap' = depMap /\ deps' = deps)]_vars

\* The body of the only effect has thrown, and a key has then been read at
\* top level: the slot was empty and nobody is subscribed to anything.
C34_Witness ==
    /\ last.op = "read"
    /\ last.e = NoEffect
    /\ stack = <<>>
    /\ Cardinality(created) = 1
    /\ errors = 1
    /\ \A e \in created : runs[e] = 1
    /\ \A p \in Pairs : depMap[p] = <<>>

\* ---------------------------------------------------------------- claims: trigger
\* C35: trigger(arr, i) for a numeric index i hands effect e to the
\* scheduler exactly when e is subscribed to the index i, or i is at or
\* past the array's length and e is subscribed to length; an effect it
\* hands over is handed over once (one more idle callback, or one entry in
\* the pending Set) also when it is subscribed to both keys, and for every
\* other effect no queue changes.
C35_LengthOnlyPastTheEnd ==
    [][\A p \in ArrPairs :
          (TriggerCall(p) /\ isNumericKey(p[2])) =>
              \A e \in Effects :
                  IF \/ p \in deps[e]
                     \/ /\ KeyNum(p[2]) >= val[LengthOf(p[1])]
                        /\ LengthOf(p[1]) \in deps[e]
                  THEN /\ e \in last'.es
                       /\ IF UsesIdle(e)
                          THEN Count(idleQueue', e) = Count(idleQueue, e) + 1
                          ELSE Count(effectQueue', e) = 1
                  ELSE /\ e \notin last'.es
                       /\ Load(e)' = Load(e)]_vars

\* trigger(arr, 1) has just been called on an array of length 1, with an
\* idle effect subscribed to index 1 and to length: it has one idle
\* callback, not two.
C35_Witness ==
    \E e \in Effects :
        /\ pc = "trigger"
        /\ last.op = "trigger"
        /\ last.p = <<"arr", "1">>
        /\ val[LengthOf("arr")] = 1
        /\ UsesIdle(e)
        /\ deps[e] = {<<"arr", "1">>, LengthOf("arr")}
        /\ last.es = {e}
        /\ idleQueue = <<e>>

\* trigger(arr, 0) has just been called on an array of length 1 with an
\* effect subscribed to length only: nothing is scheduled.
C35_InRange ==
    /\ pc = "trigger"
    /\ last.op = "trigger"
    /\ last.p = <<"arr", "0">>
    /\ val[LengthOf("arr")] = 1
    /\ \E e \in Effects : deps[e] = {LengthOf("arr")}
    /\ last.es = {}
    /\ effectQueue = <<>>
    /\ idleQueue = <<>>

\* ---------------------------------------------------------------- claims: both directions
\* C36: in every reachable state effect e is in the dep Set of (target, key)
\* exactly when that dep Set is in e.deps, and no dep Set holds an effect
\* twice; and a read of a key the running effect is already subscribed to
\* changes neither the dep Sets nor e.deps.
C36_GraphBidirectional ==
    /\ [](\A e \in Effects, p \in AllPairs :
             /\ Contains(depMap[p], e) <=> p \in deps[e]
             /\ NoDup(depMap[p]))
    /\ [][\A p \in Pairs :
            (Read(p) /\ activeEffect # NoEffect /\ p \in deps[activeEffect]) =>
                (depMap' = depMap /\ deps' = deps)]_vars

\* A flush is running an effect again after a write to the key it had
\* read: cleanup has emptied its deps, the body has read the key again, and
\* the effect is the one member of that dep Set.
C36_Witness ==
    \E e \in Effects :
        /\ runs[e] = 2
        /\ hits[e] = 1
        /\ Running(e)
        /\ last.op = "read"
        /\ last.e = e
        /\ deps[e] = {last.p}
        /\ depMap[last.p] = <<e>>

\* ---------------------------------------------------------------- claims: nested registration
\* The body of an effect is the innermost user function, and an effect
\* registered by it (or by a body it called into) has ended its first run.
InnerRunEnds ==
    /\ (Return \/ Throw \/ Unwind)
    /\ TopIs("effect")
    /\ Top.via = "register"
    /\ \E i \in 1..(Len(stack) - 1) : stack[i].t = "effect"

\* C37: when the first run of an effect registered inside a running effect
\* body ends, the active-effect slot is empty and the outer body is the
\* innermost user function again; while that body goes on the slot stays
\* empty (only a further registration fills it, for the time of its run);
\* and every read made with the slot empty leaves all dep Sets and all deps
\* as they were, so the outer effect gets no subscription from it.
C37_NestedRegistrationEmptiesSlot ==
    /\ [][InnerRunEnds =>
            /\ activeEffect' = NoEffect
            /\ stack' = Pop]_vars
    /\ [][(TopIs("effect") /\ activeEffect = NoEffect /\ stack' = stack) =>
            activeEffect' = NoEffect]_vars
    /\ [][\A p \in Pairs :
            (Read(p) /\ TopIs("effect") /\ activeEffect = NoEffect) =>
                (depMap' = depMap /\ deps' = deps)]_vars
    /\ [](\A i \in 1..Len(stack) :
             (stack[i].t = "effect" /\ i < Len(stack)
                  /\ stack[i + 1].t = "effect") =>
                 activeEffect # stack[i].e)

\* The body of e1 has registered e2, whose first run read a key and has
\* ended, and has then read a key itself: e2 is subscribed, e1 is not.
C37_Witness ==
    /\ Len(stack) = 1
    /\ Top.t = "effect"
    /\ Top.e = "e1"
    /\ runs = [e \in Effects |-> 1]
    /\ last.op = "read"
    /\ last.e = NoEffect
    /\ activeEffect = NoEffect
    /\ deps["e1"] = {}
    /\ deps["e2"] # {}
    /\ depMap[last.p] = <<>>

\* ---------------------------------------------------------------- claims: renderItem throws
\* The position of the first item whose renderItem throws, 0 when none does.
FirstThrow ==
    IF \E i \in 1..Len(items) : items[i] \in ThrowKeys
    THEN CHOOSE i \in 1..Len(items) :
             /\ items[i] \in ThrowKeys
             /\ \A j \in 1..(i - 1) : items[j] \notin ThrowKeys
    ELSE 0
\* The calls a pass has added to the log.
NewCalls(ev) ==
    {i \in (Len(log) + 1)..Len(log') : log'[i].ev = ev}

\* C40: a pass in which renderItem throws for an item stops at that item:
\* the cache and the container keep what they held and gain, in order, the
\* nodes of the new items before it; no key is removed, no node leaves the
\* container, no disposal function is called and no registration is lost,
\* though ids the array no longer has may be cached.  The exception is given
\* to globalErrorHandler once and ends the body, and the root effect is
\* still subscribed to the items, so that a later assignment makes it
\* pending.  In every state each cached key has a node that is in the
\* container, and after a pass that did not throw the cached keys are the
\* ids of the array.
C40_RenderErrorStopsPass ==
    /\ [][(ReconcileOrThrow /\ FirstThrow # 0) =>
            /\ pass'.thrown
            /\ Len(nodeCache') >= Len(nodeCache)
            /\ Len(container') >= Len(container)
            /\ SubSeq(nodeCache', 1, Len(nodeCache)) = nodeCache
            /\ SubSeq(container', 1, Len(container)) = container
            /\ SeqSet(cacheKeys(nodeCache')) =
                   SeqSet(cacheKeys(nodeCache))
                       \cup {items[j] : j \in 1..(FirstThrow - 1)}
            /\ NewCalls("cleanup") = {}
            /\ NewCalls("remove") = {}
            /\ disposalRegistry \subseteq disposalRegistry'
            /\ Contains(depMap'[ItemsPair], rootEffect)]_vars
    /\ [][ThrowFromPass =>
            /\ errors' = errors + 1
            /\ ~exc'
            /\ escaped' = escaped
            /\ activeEffect' = NoEffect
            /\ depMap'[ItemsPair] = <<rootEffect>>
            /\ UNCHANGED <<nodeCache, container, disposalRegistry, log>>]_vars
    /\ [][\A its \in ItemSeqs :
            (SetItems(its) /\ rootEffect # NoEffect) =>
                effectQueue' = <<rootEffect>>]_vars
    /\ [](/\ NoDup(cacheKeys(nodeCache))
          /\ \A i \in 1..Len(nodeCache) :
                 nodeCache[i].node \in SeqSet(container)
          /\ (PassComplete /\ ~pass.thrown) =>
                 SeqSet(cacheKeys(nodeCache)) = SeqSet(items))

\* The list showed item 1; the array became <<2, 3>> and the pass has ended
\* in the exception of renderItem for 3: the handler was called, 2 is cached
\* and in the container after 1, and 1 is still cached, its disposal
\* function registered and not called.
C40_Witness ==
    /\ pc = "render"
    /\ last.op = "caught"
    /\ errors = 1
    /\ items = <<"2", "3">>
    /\ cacheKeys(nodeCache) = <<"1", "2">>
    /\ container = cacheNodes(nodeCache)
    /\ disposalRegistry = {<<1, "f1">>, <<2, "f2">>}
    /\ \A i \in 1..Len(log) : log[i].ev \notin {"cleanup", "remove"}
    /\ depMap[ItemsPair] = <<rootEffect>>
    /\ stack # <<>>

\* ---------------------------------------------------------------- claims: progress
\* A callback has just called the wrapper of e, which ran the body unless e
\* is disposed.
BodyRunFor(e) ==
    /\ last.op = "call"
    /\ last.e = e
    /\ last.chg \/ disposed[e]
\* A write made by an effect body was the last step.
BodyWrote ==
    /\ last.op = "write"
    /\ \E i \in 1..Len(stack) : stack[i].t = "effect"

\* C38: with a host that runs the queued microtasks and user functions that
\* end, an effect held by the pending Set has its wrapper called by a flush
\* afterwards, which runs its body unless it is disposed by then; so has an
\* effect a batch has deferred, after the batch; and when no effect body
\* writes, from some point on the pending Set is empty and no microtask
\* waits.
C38_ScheduledEventuallyRuns ==
    /\ \A e \in Effects : Contains(effectQueue, e) ~> BodyRunFor(e)
    /\ \A e \in Effects : Contains(queuedEffects, e) ~> BodyRunFor(e)
    /\ ([]~BodyWrote) => <>[](effectQueue = <<>> /\ microtasks = <<>>)

\* A flush has just called the wrapper of an effect that a batch had
\* deferred and the end of the batch had made pending: its body runs for
\* the second time, and the renderFn of the batch waits behind the flush.
C38_Witness ==
    /\ pc = "live"
    /\ last.op = "call"
    /\ last.chg
    /\ runs[last.e] = 2
    /\ hits[last.e] = 1
    /\ effectQueue = <<>>
    /\ Len(stack) = 2
    /\ stack[1].t = "flush"
    /\ \E i \in 1..Len(microtasks) :
           microtasks[i].k = "render" /\ last.e \in microtasks[i].deferred

\* ---------------------------------------------------------------- claims: the deferred Set
\* C39: with no dataFn executing the batching flag is false and the deferred
\* Set is empty; an effect is deferred only while the flag is set inside a
\* dataFn; and the step in which control leaves any dataFn, of an outer or
\* a nested batch, by return or by exception, clears the flag, empties the
\* deferred Set and hands every effect it held to the scheduler.
C39_NoDeferredOutsideBatch ==
    /\ [](BatchDepth = 0 => (~batched /\ queuedEffects = <<>>))
    /\ [](queuedEffects # <<>> => (batched /\ BatchDepth > 0))
    /\ [][BatchEnds =>
            /\ ~batched'
            /\ queuedEffects' = <<>>
            /\ \A e \in Effects :
                  Contains(queuedEffects, e) =>
                      \/ Contains(effectQueue', e)
                      \/ Count(idleQueue', e) > Count(idleQueue, e)]_vars

\* The dataFn of a nested batch has just returned with an effect deferred:
\* the outer dataFn still executes, nothing is deferred any more and the
\* effect is pending.
C39_Witness ==
    /\ last.op = "batchEnd"
    /\ ~last.chg
    /\ ~exc
    /\ BatchDepth = 1
    /\ last.es # {}
    /\ \A e \in last.es : Contains(effectQueue, e)
    /\ queuedEffects = <<>>
    /\ ~batched

====
